---- MODULE Spec2Model ----
(***************************************************************************)
(* State-machine model of the DDS decoder smalldds::DDSFile                *)
(* (src/unnamed/part_000: load, verify_header, deduce_format_from_fourCC,  *)
(* calc_channel_info, image_data_size, populate_image_data,                *)
(* get_image_data) and of the compressed block flipper                     *)
(* tinyddsloader::DDSFile::Flip (src/tinyddsloader.h).                     *)
(*                                                                         *)
(* Encoding of C++ values:                                                 *)
(*  - a uint32_t used as a bit field (flags, caps2, channel masks) is the  *)
(*    set of the indices of its set bits, so x & y is x \cap y, x | y is   *)
(*    x \cup y and x & ~y is x \ y;                                        *)
(*  - a uint32_t used as a number is an integer; the inputs are bounded so *)
(*    that every product the code forms stays far below 2^31;              *)
(*  - the raw buffer is the record of its length, its first four bytes and *)
(*    the header records stored at offsets 4 and 128.                      *)
(***************************************************************************)
EXTENDS Integers, Sequences, FiniteSets, TLC

(***************************************************************************)
(* Enumerators and FourCC codes of the source.                             *)
(***************************************************************************)
FOURCC_DXT1 == 827611204
FOURCC_DXT2 == 844388420
FOURCC_DXT3 == 861165636
FOURCC_DXT4 == 877942852
FOURCC_DXT5 == 894720068
FOURCC_RXGB == 1111971922
FOURCC_ATI1 == 826889281
FOURCC_ATI2 == 843666497
FOURCC_BC4U == 1429488450
FOURCC_BC4S == 1395934018
FOURCC_BC5U == 1429553986
FOURCC_BC5S == 1395999554
FOURCC_BC6H == 1211515714
FOURCC_DX10 == 808540228
FOURCC_RGBG == 1195525970
FOURCC_GRGB == 1111970375
FOURCC_YUY2 == 844715353
FOURCC_UYVY == 1498831189
FOURCC_BC7L == 1278690114
FOURCC_BC70 == 3621698
FOURCC_A2XY == 1498952257
FOURCC_A2D5 == 893661761
FOURCC_ZOLA == 1095520090
FOURCC_CTX1 == 827872323
FOURCC_ASTC4x4 == 875844417
FOURCC_ASTC5x4 == 875909953
FOURCC_ASTC5x5 == 892687169
FOURCC_ASTC6x5 == 892752705
FOURCC_ASTC6x6 == 909529921
FOURCC_ASTC8x5 == 892883777
FOURCC_ASTC8x6 == 909660993
FOURCC_ASTC8x8 == 943215425
FOURCC_ASTC10x5 == 893473601
FOURCC_ASTC10x6 == 910250817
FOURCC_ASTC10x8 == 943805249
FOURCC_ASTC10x10 == 1094800193
FOURCC_ASTC12x10 == 1094931265
FOURCC_ASTC12x12 == 1128485697
FOURCC_ASTC10x5_ALT == 893014849
FOURCC_ASTC10x6_ALT == 909792065
FOURCC_ASTC10x8_ALT == 943346497
FOURCC_ASTC10x10_ALT == 976900929
FOURCC_ASTC12x10_ALT == 977032001
FOURCC_ASTC12x12_ALT == 1010586433
D3DFMT_UNKNOWN == 0
D3DFMT_R8G8B8 == 20
D3DFMT_A8R8G8B8 == 21
D3DFMT_X8R8G8B8 == 22
D3DFMT_R5G6B5 == 23
D3DFMT_X1R5G5B5 == 24
D3DFMT_A1R5G5B5 == 25
D3DFMT_A4R4G4B4 == 26
D3DFMT_R3G3B2 == 27
D3DFMT_A8 == 28
D3DFMT_A8R3G3B2 == 29
D3DFMT_X4R4G4B4 == 30
D3DFMT_A2B10G10R10 == 31
D3DFMT_A8B8G8R8 == 32
D3DFMT_X8B8G8R8 == 33
D3DFMT_G16R16 == 34
D3DFMT_A2R10G10B10 == 35
D3DFMT_A16B16G16R16 == 36
D3DFMT_A8P8 == 40
D3DFMT_P8 == 41
D3DFMT_L8 == 50
D3DFMT_A8L8 == 51
D3DFMT_A4L4 == 52
D3DFMT_V8U8 == 60
D3DFMT_L6V5U5 == 61
D3DFMT_X8L8V8U8 == 62
D3DFMT_Q8W8V8U8 == 63
D3DFMT_V16U16 == 64
D3DFMT_A2W10V10U10 == 67
D3DFMT_D16_LOCKABLE == 70
D3DFMT_D32 == 71
D3DFMT_D15S1 == 73
D3DFMT_D24S8 == 75
D3DFMT_D24X8 == 77
D3DFMT_D24X4S4 == 79
D3DFMT_D16 == 80
D3DFMT_L16 == 81
D3DFMT_D32F_LOCKABLE == 82
D3DFMT_D24FS8 == 83
D3DFMT_D32_LOCKABLE == 84
D3DFMT_S8_LOCKABLE == 85
D3DFMT_VERTEXDATA == 100
D3DFMT_INDEX16 == 101
D3DFMT_INDEX32 == 102
D3DFMT_Q16W16V16U16 == 110
D3DFMT_R16F == 111
D3DFMT_G16R16F == 112
D3DFMT_A16B16G16R16F == 113
D3DFMT_R32F == 114
D3DFMT_G32R32F == 115
D3DFMT_A32B32G32R32F == 116
D3DFMT_CxV8U8 == 117
D3DFMT_A1 == 118
D3DFMT_A2B10G10R10_XR_BIAS == 119
D3DFMT_BINARYBUFFER == 199
ALPHA_MODE_UNKNOWN == 0
ALPHA_MODE_STRAIGHT == 1
ALPHA_MODE_PREMULTIPLIED == 2
ALPHA_MODE_OPAQUE == 3
ALPHA_MODE_CUSTOM == 4
Format_Unknown == 0
R32G32B32A32_Typeless == 1
R32G32B32A32_Float == 2
R32G32B32A32_UInt == 3
R32G32B32A32_SInt == 4
R32G32B32_Typeless == 5
R32G32B32_Float == 6
R32G32B32_UInt == 7
R32G32B32_SInt == 8
R16G16B16A16_Typeless == 9
R16G16B16A16_Float == 10
R16G16B16A16_UNorm == 11
R16G16B16A16_UInt == 12
R16G16B16A16_SNorm == 13
R16G16B16A16_SInt == 14
R32G32_Typeless == 15
R32G32_Float == 16
R32G32_UInt == 17
R32G32_SInt == 18
R32G8X24_Typeless == 19
D32_Float_S8X24_UInt == 20
R32_Float_X8X24_Typeless == 21
X32_Typeless_G8X24_UInt == 22
R10G10B10A2_Typeless == 23
R10G10B10A2_UNorm == 24
R10G10B10A2_UInt == 25
R11G11B10_Float == 26
R8G8B8A8_Typeless == 27
R8G8B8A8_UNorm == 28
R8G8B8A8_UNorm_SRGB == 29
R8G8B8A8_UInt == 30
R8G8B8A8_SNorm == 31
R8G8B8A8_SInt == 32
R16G16_Typeless == 33
R16G16_Float == 34
R16G16_UNorm == 35
R16G16_UInt == 36
R16G16_SNorm == 37
R16G16_SInt == 38
R32_Typeless == 39
D32_Float == 40
R32_Float == 41
R32_UInt == 42
R32_SInt == 43
R24G8_Typeless == 44
D24_UNorm_S8_UInt == 45
R24_UNorm_X8_Typeless == 46
X24_Typeless_G8_UInt == 47
R8G8_Typeless == 48
R8G8_UNorm == 49
R8G8_UInt == 50
R8G8_SNorm == 51
R8G8_SInt == 52
R16_Typeless == 53
R16_Float == 54
D16_UNorm == 55
R16_UNorm == 56
R16_UInt == 57
R16_SNorm == 58
R16_SInt == 59
R8_Typeless == 60
R8_UNorm == 61
R8_UInt == 62
R8_SNorm == 63
R8_SInt == 64
A8_UNorm == 65
R1_UNorm == 66
R9G9B9E5_SHAREDEXP == 67
R8G8_B8G8_UNorm == 68
G8R8_G8B8_UNorm == 69
BC1_Typeless == 70
BC1_UNorm == 71
BC1_UNorm_SRGB == 72
BC2_Typeless == 73
BC2_UNorm == 74
BC2_UNorm_SRGB == 75
BC3_Typeless == 76
BC3_UNorm == 77
BC3_UNorm_SRGB == 78
BC4_Typeless == 79
BC4_UNorm == 80
BC4_SNorm == 81
BC5_Typeless == 82
BC5_UNorm == 83
BC5_SNorm == 84
B5G6R5_UNorm == 85
B5G5R5A1_UNorm == 86
B8G8R8A8_UNorm == 87
B8G8R8X8_UNorm == 88
R10G10B10_XR_BIAS_A2_UNorm == 89
B8G8R8A8_Typeless == 90
B8G8R8A8_UNorm_SRGB == 91
B8G8R8X8_Typeless == 92
B8G8R8X8_UNorm_SRGB == 93
BC6H_Typeless == 94
BC6H_UF16 == 95
BC6H_SF16 == 96
BC7_Typeless == 97
BC7_UNorm == 98
BC7_UNorm_SRGB == 99
AYUV == 100
Y410 == 101
Y416 == 102
NV12 == 103
P010 == 104
P016 == 105
YUV420_OPAQUE == 106
YUY2 == 107
Y210 == 108
Y216 == 109
NV11 == 110
AI44 == 111
IA44 == 112
P8 == 113
A8P8 == 114
B4G4R4A4_UNorm == 115
P208 == 130
V208 == 131
V408 == 132
ASTC_4X4_Typeless == 133
ASTC_4X4_UNorm == 134
ASTC_4X4_UNorm_SRGB == 135
ASTC_5X4_Typeless == 137
ASTC_5X4_UNorm == 138
ASTC_5X4_UNorm_SRGB == 139
ASTC_5X5_Typeless == 141
ASTC_5X5_UNorm == 142
ASTC_5X5_UNorm_SRGB == 143
ASTC_6X5_Typeless == 145
ASTC_6X5_UNorm == 146
ASTC_6X5_UNorm_SRGB == 147
ASTC_6X6_Typeless == 149
ASTC_6X6_UNorm == 150
ASTC_6X6_UNorm_SRGB == 151
ASTC_8X5_Typeless == 153
ASTC_8X5_UNorm == 154
ASTC_8X5_UNorm_SRGB == 155
ASTC_8X6_Typeless == 157
ASTC_8X6_UNorm == 158
ASTC_8X6_UNorm_SRGB == 159
ASTC_8X8_Typeless == 161
ASTC_8X8_UNorm == 162
ASTC_8X8_UNorm_SRGB == 163
ASTC_10X5_Typeless == 165
ASTC_10X5_UNorm == 166
ASTC_10X5_UNorm_SRGB == 167
ASTC_10X6_Typeless == 169
ASTC_10X6_UNorm == 170
ASTC_10X6_UNorm_SRGB == 171
ASTC_10X8_Typeless == 173
ASTC_10X8_UNorm == 174
ASTC_10X8_UNorm_SRGB == 175
ASTC_10X10_Typeless == 177
ASTC_10X10_UNorm == 178
ASTC_10X10_UNorm_SRGB == 179
ASTC_12X10_Typeless == 181
ASTC_12X10_UNorm == 182
ASTC_12X10_UNorm_SRGB == 183
ASTC_12X12_Typeless == 185
ASTC_12X12_UNorm == 186
ASTC_12X12_UNorm_SRGB == 187
A4B4G4R4_UNorm == 191
Texture0D == 0
Texture1D == 2
Texture2D == 3
Texture3D == 4
Success == 0
Info == 1
Warning == 2
Error == 3

(***************************************************************************)
(* Bounds of the model.                                                    *)
(***************************************************************************)
MaxOps == 3
MaxIdx == 2

(***************************************************************************)
(* Sizes of the fixed records.                                             *)
(***************************************************************************)
SizeofMagic == 4
SizeofHeader == 124
SizeofPixelFormat == 32
SizeofHeaderDXT10 == 20

Magic == <<"D", "D", "S", " ">>

Max(a, b) == IF a >= b THEN a ELSE b

(***************************************************************************)
(* Bit fields: PixelFormatFlagBits, HeaderFlagBits, HeaderCaps2FlagBits,   *)
(* DXT10MiscFlagBits, each as the set of its bit indices.                  *)
(***************************************************************************)
AlphaPixels == {0}
AlphaOnly == {1}
FourCC == {2}
RGB == {6}
YUV == {9}
AlphaPreMult == {15}
Luminance == {17}
BumpLuminance == {18}
BumpDuDv == {19}
SRGB == {30}
Normal == {31}
Height == {1}
Depth == {23}
CubemapAllFaces == 9..15
TextureCube == {2}

(***************************************************************************)
(* struct Result: the rolled-up severity and the appended messages (each   *)
(* message is represented by a tag naming it).                             *)
(***************************************************************************)
MkResult(t, m) == [type |-> t, message |-> m]

add_message(res, t, m) ==
    [type |-> Max(res.type, t), message |-> Append(res.message, m)]

HasMessage(res, m) == \E i \in 1..Len(res.message) : res.message[i] = m

(***************************************************************************)
(* Unsigned division by zero is undefined behaviour.  A build either traps *)
(* (x86: SIGFPE) or yields quotient 0 and remainder x (AArch64 udiv/msub). *)
(* DivU and ModU give the second outcome; every routine that can evaluate  *)
(* a zero divisor reports it in a field dz, and the actions branch on it.  *)
(***************************************************************************)
DivU(a, b) == IF b = 0 THEN 0 ELSE a \div b
ModU(a, b) == IF b = 0 THEN a ELSE a % b

\* uint32_t multiplication: the product modulo 2^32, computed on the four
\* bytes of each operand so that no intermediate value reaches 2^31;
\* defined for operands and results below 2^31.
MulU32(a, b) ==
    LET A(i) == (a \div (256 ^ i)) % 256
        B(i) == (b \div (256 ^ i)) % 256
        c0 == A(0) * B(0)
        c1 == A(0) * B(1) + A(1) * B(0) + (c0 \div 256)
        c2 == A(0) * B(2) + A(1) * B(1) + A(2) * B(0) + (c1 \div 256)
        c3 == A(0) * B(3) + A(1) * B(2) + A(2) * B(1) + A(3) * B(0) + (c2 \div 256)
    IN  (c0 % 256) + 256 * (c1 % 256) + 65536 * (c2 % 256) + 16777216 * (c3 % 256)

(***************************************************************************)
(* calc_shifts: position of the lowest set bit and the length of the run   *)
(* of set bits that starts there.                                          *)
(***************************************************************************)
ShiftRight1(mask) == {b - 1 : b \in (mask \ {0})}

RECURSIVE ScanToSet(_, _)
ScanToSet(mask, i) ==
    IF i < 32 /\ 0 \notin mask THEN ScanToSet(ShiftRight1(mask), i + 1)
    ELSE [i |-> i, mask |-> mask]

RECURSIVE ScanToClear(_, _)
ScanToClear(mask, i) ==
    IF i < 32 /\ 0 \in mask THEN ScanToClear(ShiftRight1(mask), i + 1)
    ELSE i

calc_shifts_AllSetBits(mask) ==
    IF mask = {} THEN [count |-> 0, right |-> 0]
    ELSE [count |-> Cardinality(mask), right |-> ScanToSet(mask, 0).i]

calc_shifts(mask) ==
    IF mask = {} THEN [count |-> 0, right |-> 0]
    ELSE LET first == ScanToSet(mask, 0)
         IN  [count |-> ScanToClear(first.mask, 0), right |-> first.i]

is_compressed(fmt) ==
    \/ (fmt >= BC1_Typeless /\ fmt <= BC7_UNorm_SRGB)
    \/ (fmt >= ASTC_4X4_Typeless /\ fmt <= ASTC_12X12_UNorm_SRGB)
BppTable(fmt) ==
    CASE fmt \in {R32G32B32A32_Typeless, R32G32B32A32_Float, R32G32B32A32_UInt, R32G32B32A32_SInt} -> 128
      [] fmt \in {R32G32B32_Typeless, R32G32B32_Float, R32G32B32_UInt, R32G32B32_SInt} -> 96
      [] fmt \in {R16G16B16A16_Typeless, R16G16B16A16_Float, R16G16B16A16_UNorm, R16G16B16A16_UInt,
                  R16G16B16A16_SNorm, R16G16B16A16_SInt, R32G32_Typeless, R32G32_Float,
                  R32G32_UInt, R32G32_SInt, R32G8X24_Typeless, D32_Float_S8X24_UInt,
                  R32_Float_X8X24_Typeless, X32_Typeless_G8X24_UInt, Y416, Y210, Y216} -> 64
      [] fmt \in {R10G10B10A2_Typeless, R10G10B10A2_UNorm, R10G10B10A2_UInt, R11G11B10_Float, R8G8B8A8_Typeless,
                  R8G8B8A8_UNorm, R8G8B8A8_UNorm_SRGB, R8G8B8A8_UInt, R8G8B8A8_SNorm,
                  R8G8B8A8_SInt, R16G16_Typeless, R16G16_Float, R16G16_UNorm, R16G16_UInt,
                  R16G16_SNorm, R16G16_SInt, R32_Typeless, D32_Float, R32_Float, R32_UInt,
                  R32_SInt, R24G8_Typeless, D24_UNorm_S8_UInt, R24_UNorm_X8_Typeless,
                  X24_Typeless_G8_UInt, R9G9B9E5_SHAREDEXP, R8G8_B8G8_UNorm, G8R8_G8B8_UNorm,
                  B8G8R8A8_UNorm, R10G10B10_XR_BIAS_A2_UNorm, B8G8R8A8_Typeless,
                  B8G8R8A8_UNorm_SRGB, B8G8R8X8_Typeless, B8G8R8X8_UNorm, B8G8R8X8_UNorm_SRGB,
                  AYUV, Y410, YUY2} -> 32
      [] fmt \in {P010, P016} -> 24
      [] fmt \in {R8G8_Typeless, R8G8_UNorm, R8G8_UInt, R8G8_SNorm, R8G8_SInt, R16_Typeless, R16_Float,
                  D16_UNorm, R16_UNorm, R16_UInt, R16_SNorm, R16_SInt, B5G6R5_UNorm,
                  B5G5R5A1_UNorm, B4G4R4A4_UNorm, A4B4G4R4_UNorm, A8P8} -> 16
      [] fmt \in {NV12, YUV420_OPAQUE, NV11} -> 12
      [] fmt \in {R8_Typeless, R8_UNorm, R8_UInt, R8_SNorm, R8_SInt, A8_UNorm, AI44, IA44, P8} -> 8
      [] fmt \in {BC2_Typeless, BC2_UNorm, BC2_UNorm_SRGB, BC3_Typeless, BC3_UNorm, BC3_UNorm_SRGB, BC5_Typeless,
                  BC5_UNorm, BC5_SNorm, BC6H_Typeless, BC6H_UF16, BC6H_SF16, BC7_Typeless,
                  BC7_UNorm, BC7_UNorm_SRGB} -> 8
      [] fmt \in {BC1_Typeless, BC1_UNorm, BC1_UNorm_SRGB, BC4_Typeless, BC4_UNorm, BC4_SNorm} -> 4
      [] fmt \in {R1_UNorm} -> 1
      [] fmt \in {ASTC_4X4_Typeless, ASTC_4X4_UNorm, ASTC_4X4_UNorm_SRGB, ASTC_5X4_Typeless, ASTC_5X4_UNorm,
                  ASTC_5X4_UNorm_SRGB, ASTC_5X5_Typeless, ASTC_5X5_UNorm, ASTC_5X5_UNorm_SRGB,
                  ASTC_6X5_Typeless, ASTC_6X5_UNorm, ASTC_6X5_UNorm_SRGB, ASTC_6X6_Typeless,
                  ASTC_6X6_UNorm, ASTC_6X6_UNorm_SRGB, ASTC_8X5_Typeless, ASTC_8X5_UNorm,
                  ASTC_8X5_UNorm_SRGB, ASTC_8X6_Typeless, ASTC_8X6_UNorm, ASTC_8X6_UNorm_SRGB,
                  ASTC_8X8_Typeless, ASTC_8X8_UNorm, ASTC_8X8_UNorm_SRGB, ASTC_10X5_Typeless,
                  ASTC_10X5_UNorm, ASTC_10X5_UNorm_SRGB, ASTC_10X6_Typeless, ASTC_10X6_UNorm,
                  ASTC_10X6_UNorm_SRGB, ASTC_10X8_Typeless, ASTC_10X8_UNorm,
                  ASTC_10X8_UNorm_SRGB, ASTC_10X10_Typeless, ASTC_10X10_UNorm,
                  ASTC_10X10_UNorm_SRGB, ASTC_12X10_Typeless, ASTC_12X10_UNorm,
                  ASTC_12X10_UNorm_SRGB, ASTC_12X12_Typeless, ASTC_12X12_UNorm,
                  ASTC_12X12_UNorm_SRGB} -> 128
      [] OTHER -> 0

BppTableFormats ==
    {R32G32B32A32_Typeless, R32G32B32A32_Float, R32G32B32A32_UInt, R32G32B32A32_SInt,
     R32G32B32_Typeless, R32G32B32_Float, R32G32B32_UInt, R32G32B32_SInt, R16G16B16A16_Typeless,
     R16G16B16A16_Float, R16G16B16A16_UNorm, R16G16B16A16_UInt, R16G16B16A16_SNorm,
     R16G16B16A16_SInt, R32G32_Typeless, R32G32_Float, R32G32_UInt, R32G32_SInt,
     R32G8X24_Typeless, D32_Float_S8X24_UInt, R32_Float_X8X24_Typeless, X32_Typeless_G8X24_UInt,
     Y416, Y210, Y216, R10G10B10A2_Typeless, R10G10B10A2_UNorm, R10G10B10A2_UInt,
     R11G11B10_Float, R8G8B8A8_Typeless, R8G8B8A8_UNorm, R8G8B8A8_UNorm_SRGB, R8G8B8A8_UInt,
     R8G8B8A8_SNorm, R8G8B8A8_SInt, R16G16_Typeless, R16G16_Float, R16G16_UNorm, R16G16_UInt,
     R16G16_SNorm, R16G16_SInt, R32_Typeless, D32_Float, R32_Float, R32_UInt, R32_SInt,
     R24G8_Typeless, D24_UNorm_S8_UInt, R24_UNorm_X8_Typeless, X24_Typeless_G8_UInt,
     R9G9B9E5_SHAREDEXP, R8G8_B8G8_UNorm, G8R8_G8B8_UNorm, B8G8R8A8_UNorm,
     R10G10B10_XR_BIAS_A2_UNorm, B8G8R8A8_Typeless, B8G8R8A8_UNorm_SRGB, B8G8R8X8_Typeless,
     B8G8R8X8_UNorm, B8G8R8X8_UNorm_SRGB, AYUV, Y410, YUY2, P010, P016, R8G8_Typeless,
     R8G8_UNorm, R8G8_UInt, R8G8_SNorm, R8G8_SInt, R16_Typeless, R16_Float, D16_UNorm,
     R16_UNorm, R16_UInt, R16_SNorm, R16_SInt, B5G6R5_UNorm, B5G5R5A1_UNorm, B4G4R4A4_UNorm,
     A4B4G4R4_UNorm, A8P8, NV12, YUV420_OPAQUE, NV11, R8_Typeless, R8_UNorm, R8_UInt, R8_SNorm,
     R8_SInt, A8_UNorm, AI44, IA44, P8, BC2_Typeless, BC2_UNorm, BC2_UNorm_SRGB, BC3_Typeless,
     BC3_UNorm, BC3_UNorm_SRGB, BC5_Typeless, BC5_UNorm, BC5_SNorm, BC6H_Typeless, BC6H_UF16,
     BC6H_SF16, BC7_Typeless, BC7_UNorm, BC7_UNorm_SRGB, BC1_Typeless, BC1_UNorm,
     BC1_UNorm_SRGB, BC4_Typeless, BC4_UNorm, BC4_SNorm, R1_UNorm, ASTC_4X4_Typeless,
     ASTC_4X4_UNorm, ASTC_4X4_UNorm_SRGB, ASTC_5X4_Typeless, ASTC_5X4_UNorm,
     ASTC_5X4_UNorm_SRGB, ASTC_5X5_Typeless, ASTC_5X5_UNorm, ASTC_5X5_UNorm_SRGB,
     ASTC_6X5_Typeless, ASTC_6X5_UNorm, ASTC_6X5_UNorm_SRGB, ASTC_6X6_Typeless, ASTC_6X6_UNorm,
     ASTC_6X6_UNorm_SRGB, ASTC_8X5_Typeless, ASTC_8X5_UNorm, ASTC_8X5_UNorm_SRGB,
     ASTC_8X6_Typeless, ASTC_8X6_UNorm, ASTC_8X6_UNorm_SRGB, ASTC_8X8_Typeless, ASTC_8X8_UNorm,
     ASTC_8X8_UNorm_SRGB, ASTC_10X5_Typeless, ASTC_10X5_UNorm, ASTC_10X5_UNorm_SRGB,
     ASTC_10X6_Typeless, ASTC_10X6_UNorm, ASTC_10X6_UNorm_SRGB, ASTC_10X8_Typeless,
     ASTC_10X8_UNorm, ASTC_10X8_UNorm_SRGB, ASTC_10X10_Typeless, ASTC_10X10_UNorm,
     ASTC_10X10_UNorm_SRGB, ASTC_12X10_Typeless, ASTC_12X10_UNorm, ASTC_12X10_UNorm_SRGB,
     ASTC_12X12_Typeless, ASTC_12X12_UNorm, ASTC_12X12_UNorm_SRGB}

NumChannelsTable(fmt, is_normal, color_transform) ==
    CASE fmt \in {BC1_UNorm, BC1_UNorm_SRGB, BC2_UNorm, BC2_UNorm_SRGB, BC7_UNorm, BC7_UNorm_SRGB,
                  R32G32B32A32_Float, R16G16B16A16_Float, R32G32B32A32_UInt, R16G16B16A16_UInt,
                  R8G8B8A8_UInt, R32G32B32A32_SInt, R16G16B16A16_SInt, R8G8B8A8_SInt,
                  R16G16B16A16_SNorm, R8G8B8A8_SNorm, B5G5R5A1_UNorm, R16G16B16A16_UNorm,
                  R8G8B8A8_UNorm, R8G8B8A8_UNorm_SRGB, B8G8R8A8_UNorm, B8G8R8A8_UNorm_SRGB,
                  R10G10B10A2_Typeless, R10G10B10A2_UNorm, R10G10B10A2_UInt, B4G4R4A4_UNorm,
                  A4B4G4R4_UNorm, R10G10B10_XR_BIAS_A2_UNorm, ASTC_4X4_Typeless, ASTC_4X4_UNorm,
                  ASTC_4X4_UNorm_SRGB, ASTC_5X4_Typeless, ASTC_5X4_UNorm, ASTC_5X4_UNorm_SRGB,
                  ASTC_5X5_Typeless, ASTC_5X5_UNorm, ASTC_5X5_UNorm_SRGB, ASTC_6X5_Typeless,
                  ASTC_6X5_UNorm, ASTC_6X5_UNorm_SRGB, ASTC_6X6_Typeless, ASTC_6X6_UNorm,
                  ASTC_6X6_UNorm_SRGB, ASTC_8X5_Typeless, ASTC_8X5_UNorm, ASTC_8X5_UNorm_SRGB,
                  ASTC_8X6_Typeless, ASTC_8X6_UNorm, ASTC_8X6_UNorm_SRGB, ASTC_8X8_Typeless,
                  ASTC_8X8_UNorm, ASTC_8X8_UNorm_SRGB, ASTC_10X5_Typeless, ASTC_10X5_UNorm,
                  ASTC_10X5_UNorm_SRGB, ASTC_10X6_Typeless, ASTC_10X6_UNorm,
                  ASTC_10X6_UNorm_SRGB, ASTC_10X8_Typeless, ASTC_10X8_UNorm,
                  ASTC_10X8_UNorm_SRGB, ASTC_10X10_Typeless, ASTC_10X10_UNorm,
                  ASTC_10X10_UNorm_SRGB, ASTC_12X10_Typeless, ASTC_12X10_UNorm,
                  ASTC_12X10_UNorm_SRGB, ASTC_12X12_Typeless, ASTC_12X12_UNorm,
                  ASTC_12X12_UNorm_SRGB} -> 4
      [] fmt \in {BC3_UNorm, BC3_UNorm_SRGB} -> IF is_normal \/ color_transform = "eAGBR" THEN 3 ELSE 4
      [] fmt \in {R32G32B32_Float, R32G32B32_UInt, R32G32B32_SInt, BC6H_UF16, BC6H_SF16, R11G11B10_Float,
                  Format_Unknown, B5G6R5_UNorm, B8G8R8X8_Typeless, B8G8R8X8_UNorm,
                  B8G8R8X8_UNorm_SRGB, R9G9B9E5_SHAREDEXP} -> 3
      [] fmt \in {R32G32_Float, R32G32_UInt, R32G32_SInt, R16G16_Float, R16G16_UInt, R8G8_UInt, R16G16_SInt,
                  R8G8_SInt, R16G16_SNorm, R8G8_SNorm, R16G16_UNorm, R8G8_UNorm} -> 2
      [] fmt \in {BC5_UNorm, BC5_SNorm} -> IF is_normal THEN 3 ELSE 2
      [] fmt \in {R32_Float, D32_Float, R32_UInt, R16_Float, R16_UInt, R8_UInt, R32_SInt, R16_SInt, R8_SInt,
                  R16_SNorm, R8_SNorm, R16_UNorm, D16_UNorm, A8_UNorm, R8_UNorm, BC4_UNorm,
                  BC4_SNorm, R1_UNorm} -> 1
      [] OTHER -> 0

(***************************************************************************)
(* deduce_bitmasks_from_pixel_format: s is the record of the DDSFile's     *)
(* fields (see Self below); the routine returns the updated record.        *)
(***************************************************************************)
deduce_bitmasks_from_pixel_format(s) ==
    LET pf   == s.header.pixel_format
        bump == (pf.flags \cap BumpDuDv) # {}
        rgb0 == IF bump THEN TRUE ELSE s.bitmask_has_rgb
    IN  [s EXCEPT !.bitmask_was_bump_du_dv = IF bump THEN TRUE ELSE @,
                  !.bitmask_has_alpha = (pf.flags \cap (AlphaPixels \cup AlphaOnly)) # {},
                  !.bitmask_has_rgb = rgb0 \/ (pf.flags \cap (YUV \cup Luminance \cup RGB)) # {},
                  !.bitmasked = TRUE]

(***************************************************************************)
(* deduce_format_from_fourCC.  Ret pairs the updated fields with the       *)
(* returned format; SetMasks is the "overwrite the header itself" idiom of *)
(* the packed and D3DFMT cases.                                            *)
(***************************************************************************)
Ret(s, fmt) == [s |-> s, format |-> fmt]

SetCompression(s, c) == [s EXCEPT !.compression = c]

SetMasks(s, bc, m0, m1, m2, m3, hasAlpha, hasRgb) ==
    [s EXCEPT !.header.pixel_format.bit_count = bc,
              !.header.pixel_format.masks = <<m0, m1, m2, m3>>,
              !.bitmasked = TRUE,
              !.bitmask_has_alpha = hasAlpha,
              !.bitmask_has_rgb = hasRgb]

DX10FormatCase(s) ==
    LET f  == s.header_DXT10.format
        m3 == s.header.pixel_format.masks[4]
    IN  CASE f \in {BC1_UNorm, BC1_UNorm_SRGB} -> SetCompression(s, "BC1_DXT1")
          [] f \in {BC2_UNorm, BC2_UNorm_SRGB} -> SetCompression(s, "BC2_DXT3")
          [] f \in {BC3_UNorm, BC3_UNorm_SRGB} -> SetCompression(s, "BC3_DXT5")
          [] f \in {BC4_UNorm, BC4_SNorm} -> SetCompression(s, "BC4")
          [] f \in {BC5_UNorm, BC5_SNorm} -> SetCompression(s, "BC5")
          [] f = BC6H_UF16 -> SetCompression(s, "BC6HU")
          [] f = BC6H_SF16 -> SetCompression(s, "BC6HS")
          [] f \in {BC7_UNorm, BC7_UNorm_SRGB} -> SetCompression(s, "BC7")
          [] f \in {R10G10B10A2_Typeless, R10G10B10A2_UNorm, R10G10B10A2_UInt} ->
                SetMasks(s, 32, 0..9, 10..19, 20..29, 30..31, TRUE, TRUE)
          [] f = A4B4G4R4_UNorm -> SetMasks(s, 16, 12..15, 8..11, 4..7, 0..3, TRUE, TRUE)
          [] f = B4G4R4A4_UNorm -> SetMasks(s, 16, 8..11, 4..7, 0..3, 8..15, TRUE, TRUE)
          [] f = B5G5R5A1_UNorm -> SetMasks(s, 16, 10..14, 5..9, 0..4, {15}, TRUE, TRUE)
          [] f = B5G6R5_UNorm -> SetMasks(s, 16, 11..15, 5..10, 0..4, {}, FALSE, TRUE)
          [] f = R11G11B10_Float -> SetMasks(s, 32, 0..9, 12..22, 22..31, m3, FALSE, TRUE)
          [] f = R10G10B10_XR_BIAS_A2_UNorm ->
                SetMasks(s, 32, 0..9, 10..19, 20..29, 30..31, TRUE, TRUE)
          [] f = R9G9B9E5_SHAREDEXP -> SetMasks(s, 32, 0..8, 9..17, 18..26, 27..31, FALSE, TRUE)
          [] OTHER ->
                IF f >= ASTC_4X4_Typeless /\ f <= ASTC_12X12_UNorm_SRGB
                THEN SetCompression(s, "ASTC") ELSE s

FourCCDispatch(s) ==
    LET c  == s.header.pixel_format.fourCC
        m3 == s.header.pixel_format.masks[4]
        ct == s.color_transform
    IN  CASE c = FOURCC_DXT1 -> Ret(SetCompression(s, "BC1_DXT1"), BC1_UNorm)
          [] c = FOURCC_DXT2 -> Ret(SetCompression(s, "BC2_DXT2"), BC2_UNorm)
          [] c = FOURCC_DXT3 -> Ret(SetCompression(s, "BC2_DXT3"), BC2_UNorm)
          [] c = FOURCC_DXT4 -> Ret(SetCompression(s, "BC3_DXT4"), BC3_UNorm)
          [] c = FOURCC_DXT5 -> Ret(SetCompression(s, "BC3_DXT5"), BC3_UNorm)
          [] c = FOURCC_RXGB ->
                Ret([s EXCEPT !.compression = "BC3_DXT5",
                              !.color_transform = "eAGBR",
                              !.header.pixel_format.flags = @ \ Normal], BC3_UNorm)
          [] c \in {FOURCC_BC4U, FOURCC_ATI1} -> Ret(SetCompression(s, "BC4"), BC4_UNorm)
          [] c = FOURCC_BC4S -> Ret(SetCompression(s, "BC4"), BC4_SNorm)
          [] c = FOURCC_BC5U -> Ret(SetCompression(s, "BC5"), BC5_UNorm)
          [] c = FOURCC_ATI2 ->
                Ret([s EXCEPT !.color_transform =
                                  IF ct = "eNone" THEN "eSwapRG"
                                  ELSE IF ct = "eSwapRG" THEN "eNone" ELSE ct,
                              !.compression = "BC5"], BC5_UNorm)
          [] c = FOURCC_BC5S -> Ret(SetCompression(s, "BC5"), BC5_SNorm)
          [] c = FOURCC_BC6H -> Ret(SetCompression(s, "BC6HU"), BC6H_UF16)
          [] c \in {FOURCC_BC7L, FOURCC_BC70, FOURCC_ZOLA} -> Ret(SetCompression(s, "BC7"), BC7_UNorm)
          [] c = FOURCC_RGBG -> Ret(s, R8G8_B8G8_UNorm)
          [] c = FOURCC_GRGB -> Ret(s, G8R8_G8B8_UNorm)
          [] c = FOURCC_YUY2 -> Ret(s, YUY2)
          [] c = FOURCC_UYVY -> Ret(s, R8G8_B8G8_UNorm)
          [] c = FOURCC_ASTC4x4 -> Ret(SetCompression(s, "ASTC"), ASTC_4X4_UNorm)
          [] c = FOURCC_ASTC5x4 -> Ret(SetCompression(s, "ASTC"), ASTC_5X4_UNorm)
          [] c = FOURCC_ASTC5x5 -> Ret(SetCompression(s, "ASTC"), ASTC_5X5_UNorm)
          [] c = FOURCC_ASTC6x5 -> Ret(SetCompression(s, "ASTC"), ASTC_6X5_UNorm)
          [] c = FOURCC_ASTC6x6 -> Ret(SetCompression(s, "ASTC"), ASTC_6X6_UNorm)
          [] c = FOURCC_ASTC8x5 -> Ret(SetCompression(s, "ASTC"), ASTC_8X5_UNorm)
          [] c = FOURCC_ASTC8x6 -> Ret(SetCompression(s, "ASTC"), ASTC_8X6_UNorm)
          [] c = FOURCC_ASTC8x8 -> Ret(SetCompression(s, "ASTC"), ASTC_8X8_UNorm)
          [] c \in {FOURCC_ASTC10x5, FOURCC_ASTC10x5_ALT} -> Ret(SetCompression(s, "ASTC"), ASTC_10X5_UNorm)
          [] c \in {FOURCC_ASTC10x6, FOURCC_ASTC10x6_ALT} -> Ret(SetCompression(s, "ASTC"), ASTC_10X6_UNorm)
          [] c \in {FOURCC_ASTC10x8, FOURCC_ASTC10x8_ALT} -> Ret(SetCompression(s, "ASTC"), ASTC_10X8_UNorm)
          [] c \in {FOURCC_ASTC10x10, FOURCC_ASTC10x10_ALT} -> Ret(SetCompression(s, "ASTC"), ASTC_10X10_UNorm)
          [] c \in {FOURCC_ASTC12x10, FOURCC_ASTC12x10_ALT} -> Ret(SetCompression(s, "ASTC"), ASTC_12X10_UNorm)
          [] c \in {FOURCC_ASTC12x12, FOURCC_ASTC12x12_ALT} -> Ret(SetCompression(s, "ASTC"), ASTC_12X12_UNorm)
          [] c = FOURCC_DX10 -> Ret(DX10FormatCase(s), s.header_DXT10.format)
          [] c = D3DFMT_R8G8B8 -> Ret(SetMasks(s, 24, 16..23, 8..15, 0..7, {}, FALSE, TRUE), R8G8B8A8_UNorm)
          [] c = D3DFMT_A8R8G8B8 -> Ret(SetMasks(s, 32, 16..23, 8..15, 0..7, 24..31, FALSE, TRUE), B8G8R8A8_UNorm)
          [] c = D3DFMT_X8R8G8B8 -> Ret(SetMasks(s, 32, 16..23, 8..15, 0..7, {}, FALSE, TRUE), B8G8R8X8_UNorm)
          [] c = D3DFMT_R5G6B5 -> Ret(SetMasks(s, 16, 11..15, 5..10, 0..4, {}, FALSE, TRUE), B5G6R5_UNorm)
          [] c = D3DFMT_X1R5G5B5 -> Ret(SetMasks(s, 16, 11..15, 6..10, 1..5, {}, FALSE, TRUE), B5G5R5A1_UNorm)
          [] c = D3DFMT_A1R5G5B5 -> Ret(SetMasks(s, 16, 11..15, 6..10, 1..5, {0}, TRUE, TRUE), B5G5R5A1_UNorm)
          [] c = D3DFMT_A4R4G4B4 -> Ret(SetMasks(s, 16, 12..15, 8..11, 4..7, 0..3, TRUE, TRUE), A4B4G4R4_UNorm)
          [] c = D3DFMT_R3G3B2 -> Ret(SetMasks(s, 8, 5..7, 2..4, 0..1, {}, TRUE, TRUE), Format_Unknown)
          [] c = D3DFMT_A8 -> Ret(s, A8_UNorm)
          [] c = D3DFMT_A8R3G3B2 -> Ret(SetMasks(s, 16, 5..7, 2..4, 0..1, 8..15, TRUE, TRUE), Format_Unknown)
          [] c = D3DFMT_X4R4G4B4 -> Ret(SetMasks(s, 16, 8..11, 4..7, 0..3, {}, FALSE, TRUE), Format_Unknown)
          [] c = D3DFMT_A2B10G10R10 -> Ret(SetMasks(s, 32, 0..9, 10..19, 20..29, 30..31, TRUE, TRUE), R10G10B10A2_UNorm)
          [] c = D3DFMT_A8B8G8R8 -> Ret(SetMasks(s, 32, 0..7, 8..15, 16..23, 24..31, TRUE, TRUE), R8G8B8A8_UNorm)
          [] c = D3DFMT_X8B8G8R8 -> Ret(SetMasks(s, 32, {}, 8..15, 16..23, 24..31, FALSE, TRUE), R8G8B8A8_UNorm)
          [] c = D3DFMT_G16R16 -> Ret(s, R16G16_UNorm)
          [] c = D3DFMT_A2R10G10B10 -> Ret(SetMasks(s, 32, 0..9, 10..19, 20..29, 30..31, TRUE, TRUE), R10G10B10A2_UNorm)
          [] c = D3DFMT_A16B16G16R16 -> Ret(s, R16G16B16A16_UNorm)
          [] c = D3DFMT_L8 ->
                Ret([SetMasks(s, 8, 0..7, {}, {}, m3, s.bitmask_has_alpha, TRUE)
                        EXCEPT !.color_transform = "eLuminance"], R8_UNorm)
          [] c = D3DFMT_A8L8 ->
                Ret([SetMasks(s, 16, 0..7, {}, {}, 8..15, TRUE, TRUE)
                        EXCEPT !.color_transform = "eLuminance"], R32G32B32_Float)
          [] c = D3DFMT_A4L4 ->
                Ret([SetMasks(s, 8, 0..3, {}, {}, 4..7, TRUE, TRUE)
                        EXCEPT !.color_transform = "eLuminance"], R32G32B32_Float)
          [] c = D3DFMT_V8U8 -> Ret(s, R8G8_SNorm)
          [] c = D3DFMT_Q8W8V8U8 -> Ret(s, R8G8B8A8_SNorm)
          [] c = D3DFMT_V16U16 -> Ret(s, R16G16_SNorm)
          [] c = D3DFMT_A2W10V10U10 -> Ret(s, R10G10B10A2_UInt)
          [] c \in {D3DFMT_D16, D3DFMT_D16_LOCKABLE} -> Ret(s, D16_UNorm)
          [] c \in {D3DFMT_D32, D3DFMT_D32F_LOCKABLE} -> Ret(s, D32_Float)
          [] c \in {D3DFMT_D24S8, D3DFMT_D24X8, D3DFMT_D24X4S4} -> Ret(s, D24_UNorm_S8_UInt)
          [] c = D3DFMT_S8_LOCKABLE -> Ret(s, R8_UInt)
          [] c = D3DFMT_L16 -> Ret([s EXCEPT !.color_transform = "eLuminance"], R16_UNorm)
          [] c = D3DFMT_Q16W16V16U16 -> Ret(s, R16G16B16A16_SNorm)
          [] c = D3DFMT_R16F -> Ret(s, R16_Float)
          [] c = D3DFMT_G16R16F -> Ret(s, R16G16_Float)
          [] c = D3DFMT_A16B16G16R16F -> Ret(s, R16G16B16A16_Float)
          [] c = D3DFMT_R32F -> Ret(s, R32_Float)
          [] c = D3DFMT_G32R32F -> Ret(s, R32G32_Float)
          [] c = D3DFMT_A32B32G32R32F -> Ret(s, R32G32B32A32_Float)
          [] c = D3DFMT_CxV8U8 -> Ret([s EXCEPT !.color_transform = "eOrthographicNormal"], R8G8_SNorm)
          [] c = D3DFMT_A2B10G10R10_XR_BIAS ->
                Ret(SetMasks(s, 32, 0..9, 10..19, 20..29, 30..31, TRUE, TRUE), R10G10B10_XR_BIAS_A2_UNorm)
          [] OTHER -> Ret(s, s.header_DXT10.format)

\* The value the routine hands back: the updated fields, the messages and the
\* returned format.
Deduced(r, res) == [s |-> r.s, res |-> res, format |-> r.format]

\* A variant that reads the FourCC only when the FourCC flag is set.
deduce_format_FlagRequired(s, res) ==
    IF (s.header.pixel_format.flags \cap FourCC) # {}
    THEN Deduced(FourCCDispatch(s), res)
    ELSE Deduced(Ret(s, s.header_DXT10.format), res)

deduce_format_from_fourCC(s, res) ==
    LET pf      == s.header.pixel_format
        flagged == (pf.flags \cap FourCC) # {}
        fix     == ~flagged /\ pf.fourCC # 0
    IN  IF fix
        THEN Deduced(FourCCDispatch([s EXCEPT !.header.pixel_format.flags = @ \cup FourCC]),
                     add_message(res, Warning, "FourCCFlagNotSet"))
        ELSE IF flagged
        THEN Deduced(FourCCDispatch(s), res)
        ELSE Deduced(Ret(s, s.header_DXT10.format), res)

(***************************************************************************)
(* calc_channel_info.  The bits-per-pixel come from the table, from the    *)
(* bit_count field, or from pitch_or_linear_size / width; in the last two  *)
(* branches the assignment of 0 after a warning is followed by the         *)
(* unconditional assignment of the value, as in the source.                *)
(***************************************************************************)
\* header.pixel_format.bit_count is a uint32_t and is compared with
\* numeric_limits<size_t>::max() - 7, which no uint32_t exceeds.
ExceedsSizeMaxMinus7(x) == FALSE

calc_bpp(s, res) ==
    LET fmt == s.header_DXT10.format
        pf  == s.header.pixel_format
    IN  IF ~s.bitmasked /\ fmt # 0
        THEN IF fmt \in BppTableFormats
             THEN [bpp |-> BppTable(fmt), res |-> res, dz |-> FALSE]
             ELSE [bpp |-> 0, res |-> add_message(res, Warning, "UnsupportedFormatBpp"),
                   dz |-> FALSE]
        ELSE IF pf.bit_count # 0
        THEN [bpp |-> pf.bit_count,
              res |-> IF ExceedsSizeMaxMinus7(pf.bit_count)
                      THEN add_message(res, Warning, "BitCountTooLarge") ELSE res,
              dz |-> FALSE]
        ELSE [bpp |-> DivU(s.header.pitch_or_linear_size, s.header.width),
              res |-> IF ModU(s.header.pitch_or_linear_size, s.header.width) # 0
                      THEN add_message(res, Warning, "PitchNotDivisibleByWidth") ELSE res,
              dz |-> s.header.width = 0]

calc_num_channels(s) ==
    LET fmt       == s.header_DXT10.format
        is_normal == (s.header.pixel_format.flags \cap Normal) # {}
        masks     == s.header.pixel_format.masks
    IN  IF fmt # Format_Unknown
        THEN NumChannelsTable(fmt, is_normal, s.color_transform)
        ELSE Cardinality({i \in 1..4 : masks[i] # {}})

\* The assignments of calc_channel_info, given what the bpp branch produced.
ChannelInfo(s, b) ==
    LET masks == s.header.pixel_format.masks
    IN  [s   |-> [s EXCEPT !.bpp = b.bpp,
                           !.num_channels = calc_num_channels(s),
                           !.bit_counts = [i \in 1..4 |-> calc_shifts(masks[i]).count],
                           !.right_shifts = [i \in 1..4 |-> calc_shifts(masks[i]).right]],
         res |-> b.res,
         dz  |-> b.dz]

calc_channel_info(s, res) == ChannelInfo(s, calc_bpp(s, res))

(***************************************************************************)
(* verify_header, in the order of the source.                              *)
(***************************************************************************)
CheckSizes(s, res) ==
    LET r1 == IF s.header.size # SizeofHeader
              THEN add_message(res, Warning, "HeaderSizeIncorrect") ELSE res
    IN  IF s.header.pixel_format.size # SizeofPixelFormat
        THEN add_message(r1, Warning, "PixelFormatSizeIncorrect") ELSE r1

\* A variant of the clamp that lets a count of 32 through.
ValidateMipCountAbove32(raw) ==
    LET m == Max(1, raw) IN IF m > 32 THEN 1 ELSE m

\* header.mipmap_count = max(1U, header.mipmap_count); >= 32 is reset to 1.
ValidateMipCount(raw) ==
    LET m == Max(1, raw) IN IF m >= 32 THEN 1 ELSE m

MipCountWarning(s, res) ==
    IF Max(1, s.header.mipmap_count) >= 32
    THEN add_message(res, Warning, "MipCountTooLarge") ELSE res

\* The extended header lies in the buffer when more than 4+124+20 bytes do.
DXT10HeaderMissing(size) == SizeofMagic + SizeofHeader + SizeofHeaderDXT10 >= size

\* The switch on header_DXT10.resource_dimension.
ResourceDimensionCase(s, res) ==
    LET dim == s.header_DXT10.resource_dimension
    IN  CASE dim = Texture1D ->
                [s   |-> [s EXCEPT !.header.height = 1, !.header.depth = 1],
                 res |-> IF (s.header.flags \cap Height) # {} /\ s.header.height # 1
                         THEN add_message(res, Warning, "Texture1DHeight") ELSE res]
          [] dim = Texture2D ->
                [s   |-> IF (s.header_DXT10.misc_flag \cap TextureCube) # {}
                         THEN [s EXCEPT !.header_DXT10.array_size = @ * 6,
                                        !.is_cubemap = TRUE,
                                        !.header.depth = 1]
                         ELSE [s EXCEPT !.header.depth = 1],
                 res |-> res]
          [] dim = Texture3D ->
                LET r1 == IF (s.header.flags \cap Depth) = {}
                          THEN add_message(res, Warning, "Texture3DWithoutDepth") ELSE res
                IN  IF s.header_DXT10.array_size > 1
                    THEN [s   |-> [s EXCEPT !.header_DXT10.array_size = 1],
                          res |-> add_message(r1, Warning, "Texture3DArray")]
                    ELSE [s |-> s, res |-> r1]
          [] OTHER -> [s |-> s, res |-> add_message(res, Warning, "UnknownResourceDimension")]

\* The branch taken when the FourCC flag is set and the FourCC is "DX10";
\* the caller has checked that the extended header is in the buffer.
VerifyDXT10(s, res) ==
    LET s1 == [s EXCEPT !.has_DXT10_header = TRUE, !.header_DXT10 = s.dds.hdr10]
        z  == s1.header_DXT10.array_size = 0
        s2 == IF z THEN [s1 EXCEPT !.header_DXT10.array_size = 1] ELSE s1
        r2 == IF z THEN add_message(res, Warning, "ArraySizeZero") ELSE res
        d  == ResourceDimensionCase(s2, r2)
    IN  [s   |-> [d.s EXCEPT !.alpha_mode = d.s.header_DXT10.misc_flag2 % 8],
         res |-> d.res]

\* The branch taken without an extended header.
VerifyDX9(s, res) ==
    LET r1    == add_message(res, Info, "NoDXT10Header")
        caps2 == s.header.caps2 \cap CubemapAllFaces
    IN  IF (s.header.flags \cap Depth) # {}
        THEN [s |-> [s EXCEPT !.header_DXT10.resource_dimension = Texture3D], res |-> r1]
        ELSE [s   |-> IF caps2 # {}
                      THEN [s EXCEPT !.header_DXT10.array_size = 6,
                                     !.is_cubemap = TRUE,
                                     !.header.depth = 1,
                                     !.header_DXT10.resource_dimension = Texture2D]
                      ELSE [s EXCEPT !.header.depth = 1,
                                     !.header_DXT10.resource_dimension = Texture2D],
              res |-> IF caps2 # {} /\ caps2 # CubemapAllFaces
                      THEN add_message(r1, Warning, "PartialCubemap") ELSE r1]

SwapRBFormats ==
    {B5G5R5A1_UNorm, B8G8R8A8_UNorm, B8G8R8A8_Typeless, B8G8R8A8_UNorm_SRGB,
     B8G8R8X8_UNorm, B8G8R8X8_Typeless, B8G8R8X8_UNorm_SRGB}

\* A variant that reads the Luminance flag before the YUV flag.
ColorTransformYUVLast(s) ==
    LET pf == s.header.pixel_format
        c1 == IF pf.bit_count = FOURCC_A2XY THEN "eSwapRG"
              ELSE IF pf.bit_count = FOURCC_A2D5 THEN "eAGBR" ELSE s.color_transform
        c2 == IF (pf.flags \cap Luminance) # {} THEN "eLuminance" ELSE c1
        c3 == IF (pf.flags \cap YUV) # {} THEN "eYUV" ELSE c2
    IN  IF ~s.bitmasked /\ s.header_DXT10.format \in SwapRBFormats THEN "eSwapRB" ELSE c3

\* Swizzle code in bit_count, then the YUV and Luminance flags, then the
\* canonical format: each later assignment overrides the earlier ones.
ColorTransformOverrides(s) ==
    LET pf == s.header.pixel_format
        c1 == IF pf.bit_count = FOURCC_A2XY THEN "eSwapRG"
              ELSE IF pf.bit_count = FOURCC_A2D5 THEN "eAGBR" ELSE s.color_transform
        c2 == IF (pf.flags \cap YUV) # {} THEN "eYUV" ELSE c1
        c3 == IF (pf.flags \cap Luminance) # {} THEN "eLuminance" ELSE c2
    IN  IF ~s.bitmasked /\ s.header_DXT10.format \in SwapRBFormats THEN "eSwapRB" ELSE c3

PaletteFormats == {AI44, IA44, P8, A8P8}

AssumeR8G8B8A8(s) ==
    [s EXCEPT !.header_DXT10.format = R8G8B8A8_UNorm,
              !.bpp = 32,
              !.num_channels = 4,
              !.bitmasked = TRUE,
              !.bitmask_has_rgb = TRUE,
              !.bitmask_has_alpha = TRUE,
              !.right_shifts = [i \in 1..4 |-> 8 * (i - 1)]]

\* A variant that names the format of 32-bit masks in R, G, B, A order.
StoreFormatMatchingMasks(f) ==
    LET s1 == [f.s EXCEPT !.header_DXT10.format = f.format]
    IN  [s   |-> IF s1.header_DXT10.format = Format_Unknown /\ ~s1.bitmasked
                 THEN IF /\ s1.header.pixel_format.bit_count = 32
                         /\ s1.header.pixel_format.masks = <<0..7, 8..15, 16..23, 24..31>>
                      THEN [s1 EXCEPT !.header_DXT10.format = R8G8B8A8_UNorm]
                      ELSE deduce_bitmasks_from_pixel_format(s1)
                 ELSE s1,
         res |-> f.res]

\* header_DXT10.format = deduce_format_from_fourCC(res), then
\* deduce_bitmasks_from_pixel_format when the format is still unknown.
StoreFormat(f) ==
    LET s1 == [f.s EXCEPT !.header_DXT10.format = f.format]
    IN  [s   |-> IF s1.header_DXT10.format = Format_Unknown /\ ~s1.bitmasked
                 THEN deduce_bitmasks_from_pixel_format(s1) ELSE s1,
         res |-> f.res]

ChannelInfoOf(x) == calc_channel_info(x.s, x.res)

\* The color transform overrides, the palette formats and the bpp == 0 exit.
FinishVerify(c) ==
    LET s3 == [c.s EXCEPT !.color_transform = ColorTransformOverrides(c.s)]
    IN  IF s3.header_DXT10.format \in PaletteFormats
        THEN [s   |-> [AssumeR8G8B8A8(s3) EXCEPT !.m_header_verified = TRUE],
              res |-> add_message(c.res, Warning, "PaletteFormatUnsupported"),
              dz  |-> c.dz]
        ELSE IF s3.bpp = 0
        THEN [s |-> s3, res |-> add_message(c.res, Error, "CouldNotDeduceBpp"), dz |-> c.dz]
        ELSE [s |-> [s3 EXCEPT !.m_header_verified = TRUE], res |-> c.res, dz |-> c.dz]

\* The tail of verify_header, from deduce_format_from_fourCC on.
VerifyFormat(v) ==
    FinishVerify(ChannelInfoOf(StoreFormat(deduce_format_from_fourCC(v.s, v.res))))

verify_header(s) ==
    IF s.m_header_verified
    THEN [s |-> s, res |-> MkResult(Success, <<>>), dz |-> FALSE]
    ELSE LET r1       == MipCountWarning(s, CheckSizes(s, MkResult(Success, <<>>)))
             pf       == s.header.pixel_format
             hasFourCC == (pf.flags \cap FourCC) # {}
             s1       == [s EXCEPT !.header.mipmap_count = ValidateMipCount(@),
                                   !.is_cubemap = FALSE,
                                   !.alpha_mode = IF (pf.flags \cap AlphaPreMult) # {}
                                                  THEN ALPHA_MODE_PREMULTIPLIED ELSE @,
                                   !.has_DXT10_header = FALSE]
         IN  IF hasFourCC /\ pf.fourCC = FOURCC_DX10
             THEN IF DXT10HeaderMissing(s1.dds.size)
                  THEN [s   |-> s1,
                        res |-> add_message(add_message(r1, Info, "DXT10HeaderFound"),
                                            Error, "FileTooSmallForDXT10Header"),
                        dz  |-> FALSE]
                  ELSE VerifyFormat(VerifyDXT10(s1, add_message(r1, Info, "DXT10HeaderFound")))
             ELSE VerifyFormat(VerifyDX9(s1, r1))

(***************************************************************************)
(* Values of the records Header, PixelFormat and HeaderDXT10, and of the   *)
(* raw buffer a load receives.                                             *)
(***************************************************************************)
NoMasks == <<{}, {}, {}, {}>>

MkPixelFormat(size, flags, fourCC, bit_count, masks) ==
    [size |-> size, flags |-> flags, fourCC |-> fourCC, bit_count |-> bit_count,
     masks |-> masks]

MkHeader(size, flags, height, width, pitch, depth, mips, pf, caps2) ==
    [size |-> size, flags |-> flags, height |-> height, width |-> width,
     pitch_or_linear_size |-> pitch, depth |-> depth, mipmap_count |-> mips,
     pixel_format |-> pf, caps2 |-> caps2]

MkHeaderDXT10(format, dim, misc_flag, array_size, misc_flag2) ==
    [format |-> format, resource_dimension |-> dim, misc_flag |-> misc_flag,
     array_size |-> array_size, misc_flag2 |-> misc_flag2]

\* The default member initializers of HeaderDXT10.
DefaultHeaderDXT10 == MkHeaderDXT10(Format_Unknown, Texture0D, {}, 1, 0)

ZeroHeader == MkHeader(0, {}, 0, 0, 0, 0, 0, MkPixelFormat(0, {}, 0, 0, NoMasks), {})
ZeroHeaderDXT10 == MkHeaderDXT10(Format_Unknown, Texture0D, {}, 0, 0)

\* A buffer of n bytes: magic holds the bytes at offsets 0..3 that exist, hdr
\* the Header at offset 4 when all its 124 bytes exist, hdr10 the record at
\* offset 128 when all its 20 bytes exist.
MkBuffer(n, magic, hdr, hdr10) ==
    [size  |-> n,
     magic |-> SubSeq(magic, 1, IF n < 4 THEN n ELSE 4),
     hdr   |-> IF n >= SizeofMagic + SizeofHeader THEN hdr ELSE ZeroHeader,
     hdr10 |-> IF n >= SizeofMagic + SizeofHeader + SizeofHeaderDXT10
               THEN hdr10 ELSE ZeroHeaderDXT10]

\* std::vector<uint8_t>::clear()
EmptyBuffer == MkBuffer(0, <<>>, ZeroHeader, ZeroHeaderDXT10)

\* nullptr, as the result of get_image_data
NullIdx == -1

(***************************************************************************)
(* image_data_size: byte size of one w x h x d level.                      *)
(***************************************************************************)
BC8ByteFormats ==
    {BC1_Typeless, BC1_UNorm, BC1_UNorm_SRGB, BC4_Typeless, BC4_UNorm, BC4_SNorm}

BC16ByteFormats ==
    {BC2_Typeless, BC2_UNorm, BC2_UNorm_SRGB, BC3_Typeless, BC3_UNorm, BC3_UNorm_SRGB,
     BC5_Typeless, BC5_UNorm, BC5_SNorm, BC6H_Typeless, BC6H_UF16, BC6H_SF16,
     BC7_Typeless, BC7_UNorm, BC7_UNorm_SRGB}

\* Block dimensions passed to astc_size for each ASTC format, <<0, 0>> otherwise.
AstcBlock(fmt) ==
    CASE fmt \in {ASTC_4X4_Typeless, ASTC_4X4_UNorm, ASTC_4X4_UNorm_SRGB} -> <<4, 4>>
      [] fmt \in {ASTC_5X4_Typeless, ASTC_5X4_UNorm, ASTC_5X4_UNorm_SRGB} -> <<5, 4>>
      [] fmt \in {ASTC_5X5_Typeless, ASTC_5X5_UNorm, ASTC_5X5_UNorm_SRGB} -> <<5, 5>>
      [] fmt \in {ASTC_6X5_Typeless, ASTC_6X5_UNorm, ASTC_6X5_UNorm_SRGB} -> <<6, 5>>
      [] fmt \in {ASTC_6X6_Typeless, ASTC_6X6_UNorm, ASTC_6X6_UNorm_SRGB} -> <<6, 6>>
      [] fmt \in {ASTC_8X5_Typeless, ASTC_8X5_UNorm, ASTC_8X5_UNorm_SRGB} -> <<8, 5>>
      [] fmt \in {ASTC_8X6_Typeless, ASTC_8X6_UNorm, ASTC_8X6_UNorm_SRGB} -> <<8, 6>>
      [] fmt \in {ASTC_8X8_Typeless, ASTC_8X8_UNorm, ASTC_8X8_UNorm_SRGB} -> <<8, 8>>
      [] fmt \in {ASTC_10X5_Typeless, ASTC_10X5_UNorm, ASTC_10X5_UNorm_SRGB} -> <<10, 5>>
      [] fmt \in {ASTC_10X6_Typeless, ASTC_10X6_UNorm, ASTC_10X6_UNorm_SRGB} -> <<10, 6>>
      [] fmt \in {ASTC_10X8_Typeless, ASTC_10X8_UNorm, ASTC_10X8_UNorm_SRGB} -> <<10, 8>>
      [] fmt \in {ASTC_10X10_Typeless, ASTC_10X10_UNorm, ASTC_10X10_UNorm_SRGB} -> <<10, 10>>
      [] fmt \in {ASTC_12X10_Typeless, ASTC_12X10_UNorm, ASTC_12X10_UNorm_SRGB} -> <<12, 10>>
      [] fmt \in {ASTC_12X12_Typeless, ASTC_12X12_UNorm, ASTC_12X12_UNorm_SRGB} -> <<12, 12>>
      [] OTHER -> <<0, 0>>

astc_size(w, h, d, block_width, block_height) ==
    ((w + block_width - 1) \div block_width) * ((h + block_height - 1) \div block_height)
        * ((d + 1 - 1) \div 1) * 16

\* The switch (fmt) of the known-format branch: num_bytes before the
\* bit_count cross-check.
TableNumBytes(fmt, bpp, w, h, d) ==
    LET num_pixels    == MulU32(w, h)
        num_bc_blocks == ((w + 3) \div 4) * ((h + 3) \div 4)
        half2         == (((w + 1) \div 2) * 2) * h
        half4         == (((w + 1) \div 2) * 4) * h
    IN  CASE fmt \in BC8ByteFormats -> num_bc_blocks * 8
          [] fmt \in BC16ByteFormats -> num_bc_blocks * 16
          [] AstcBlock(fmt) # <<0, 0>> -> astc_size(w, h, d, AstcBlock(fmt)[1], AstcBlock(fmt)[2])
          [] fmt \in {R8G8_B8G8_UNorm, G8R8_G8B8_UNorm, YUY2} -> (((w + 1) \div 2) * 4) * h
          [] fmt \in {Y210, Y216} -> (((w + 1) \div 2) * 8) * h
          [] fmt = NV11 -> (((w + 3) \div 4) * 4) + h * 2
          [] fmt \in {NV12, YUV420_OPAQUE} -> half2 + ((half2 + 1) \div 2)
          [] fmt \in {P010, P016} -> half4 + ((half4 + 1) \div 2)
          [] OTHER -> (MulU32(bpp, num_pixels) + 7) \div 8

\* The cross-check of the table-derived byte rate against bit_count, for the
\* formats that are not block compressed.
BitCountMismatch(bit_count, num_bytes, num_pixels) ==
    /\ bit_count # 0
    /\ bit_count <= 128
    /\ DivU(num_bytes, num_pixels) # bit_count \div 8

\* num_bytes after the cross-check.
CrossCheckedNumBytes(bit_count, num_bytes, num_pixels) ==
    IF BitCountMismatch(bit_count, num_bytes, num_pixels) THEN bit_count \div 8 ELSE num_bytes

\* The known-format branch once the switch has produced num_bytes.
KnownFormatSize(s, w, h, d, res, num_bytes) ==
    LET bit_count  == s.header.pixel_format.bit_count
        num_pixels == MulU32(w, h)
    IN  IF ~is_compressed(s.header_DXT10.format)
        THEN [size |-> MulU32(CrossCheckedNumBytes(bit_count, num_bytes, num_pixels), d),
              res  |-> IF BitCountMismatch(bit_count, num_bytes, num_pixels)
                       THEN add_message(res, Warning, "ImageDataSizeMismatch") ELSE res,
              dz   |-> num_pixels = 0]
        ELSE [size |-> MulU32(num_bytes, d), res |-> res, dz |-> FALSE]

image_data_size(s, w, h, d, res) ==
    LET fmt       == s.header_DXT10.format
        bit_count == s.header.pixel_format.bit_count
    IN  IF ~s.bitmasked /\ fmt # 0
        THEN KnownFormatSize(s, w, h, d, res, TableNumBytes(fmt, s.bpp, w, h, d))
        ELSE IF bit_count # 0
        THEN LET file_size_bits == MulU32(MulU32(MulU32(bit_count, w), h), d)
             IN  IF ExceedsSizeMaxMinus7(file_size_bits)
                 THEN [size |-> 0, res |-> add_message(res, Warning, "FileSizeTooLarge"),
                       dz |-> FALSE]
                 ELSE [size |-> (file_size_bits + 7) \div 8, res |-> res, dz |-> FALSE]
        ELSE IF ModU(s.header.pitch_or_linear_size, s.header.width) # 0
        THEN [size |-> 0, res |-> add_message(res, Warning, "PitchNotDivisibleByWidth"),
              dz |-> s.header.width = 0]
        ELSE LET bitmasked_bits_per_pixel == DivU(s.header.pitch_or_linear_size, s.header.width)
                 pitch == MulU32(bitmasked_bits_per_pixel, w)
             IN  [size |-> MulU32(MulU32(pitch, h), d), res |-> res, dz |-> s.header.width = 0]

(***************************************************************************)
(* populate_image_data.  An ImageData is its dimensions and its span, the  *)
(* span being an offset into the raw buffer and a length.                  *)
(***************************************************************************)
PayloadOffset(hasDXT10) ==
    SizeofMagic + SizeofHeader + (IF hasDXT10 THEN SizeofHeaderDXT10 ELSE 0)

\* data_size > static_cast<size_t>(end - src_bytes): a negative difference
\* converts to a value above every data_size (data_size < 2^32).
PastEnd(data_size, endOff, srcOff) ==
    IF endOff - srcOff < 0 THEN FALSE ELSE data_size > endOff - srcOff

\* ((data_size / w) / h) / d > 16
ImpossiblyLarge(data_size, w, h, d) == DivU(DivU(DivU(data_size, w), h), d) > 16

\* A variant that drops the slice the truncation happened in.
TruncatedArraySizeWholeSlices(j, i) == j

\* header_DXT10.array_size = j + (i > 0 ? 1 : 0)
TruncatedArraySize(j, i) == j + (IF i > 0 THEN 1 ELSE 0)

\* The assignments of the "size is 0" and "past the end" branches.
TruncateAt(s, j, i) ==
    [s EXCEPT !.header.mipmap_count = i,
              !.header_DXT10.array_size = TruncatedArraySize(j, i)]

\* The assignment of the "impossibly large" branch.
TruncateImplausible(s, j, i) ==
    [s EXCEPT !.header_DXT10.array_size = TruncatedArraySize(j, i)]

\* The body of the inner loop for a level of sz.size bytes: the three exits,
\* or the emplace_back and the step to the next level.  next is FALSE on break.
MipStep(st, sz) ==
    IF sz.size = 0
    THEN [st EXCEPT !.res = add_message(sz.res, Warning, "ImageDataSizeZero"),
                    !.dz = @ \/ sz.dz,
                    !.s = TruncateAt(st.s, st.j, st.i),
                    !.next = FALSE]
    ELSE IF PastEnd(sz.size, st.s.dds.size, st.src)
    THEN [st EXCEPT !.res = add_message(sz.res, Warning, "ImageDataPastEnd"),
                    !.dz = @ \/ sz.dz,
                    !.s = TruncateAt(st.s, st.j, st.i),
                    !.next = FALSE]
    ELSE IF ImpossiblyLarge(sz.size, st.w, st.h, st.d)
    THEN [st EXCEPT !.res = add_message(sz.res, Warning, "ImageDataImpossiblyLarge"),
                    !.dz = @ \/ sz.dz \/ st.w = 0 \/ st.h = 0 \/ st.d = 0,
                    !.s = TruncateImplausible(st.s, st.j, st.i),
                    !.next = FALSE]
    ELSE [st EXCEPT !.res = sz.res,
                    !.dz = @ \/ sz.dz \/ st.w = 0 \/ st.h = 0 \/ st.d = 0,
                    !.s.image_data = Append(@, [width |-> st.w, height |-> st.h,
                                                depth |-> st.d, offset |-> st.src,
                                                length |-> sz.size]),
                    !.src = @ + sz.size,
                    !.w = Max(1, st.w \div 2),
                    !.h = Max(1, st.h \div 2),
                    !.d = Max(1, st.d \div 2),
                    !.i = @ + 1]

RECURSIVE MipLoop(_)
MipLoop(st) ==
    IF ~st.next \/ ~(st.i < st.s.header.mipmap_count) THEN st
    ELSE MipLoop(MipStep(st, image_data_size(st.s, st.w, st.h, st.d, st.res)))

\* A variant that sets w, h and d from the header for the first slice only.
RECURSIVE ArrayLoopCarryDims(_)
ArrayLoopCarryDims(st) ==
    IF ~(st.j < st.s.header_DXT10.array_size) THEN st
    ELSE ArrayLoopCarryDims([MipLoop(IF st.j = 0
                                     THEN [st EXCEPT !.i = 0,
                                                     !.next = TRUE,
                                                     !.w = st.s.header.width,
                                                     !.h = st.s.header.height,
                                                     !.d = st.s.header.depth]
                                     ELSE [st EXCEPT !.i = 0, !.next = TRUE])
                                EXCEPT !.j = @ + 1])

RECURSIVE ArrayLoop(_)
ArrayLoop(st) ==
    IF ~(st.j < st.s.header_DXT10.array_size) THEN st
    ELSE ArrayLoop([MipLoop([st EXCEPT !.i = 0,
                                       !.next = TRUE,
                                       !.w = st.s.header.width,
                                       !.h = st.s.header.height,
                                       !.d = st.s.header.depth])
                        EXCEPT !.j = @ + 1])

\* The return of populate_image_data after the loops.
Populated(st) ==
    [s   |-> st.s,
     res |-> IF st.s.image_data = <<>>
             THEN add_message(st.res, Error, "NoImageData") ELSE st.res,
     dz  |-> st.dz]

\* populate_image_data after its call of verify_header returned v.
PopulateVerified(v) ==
    IF v.res.type # Success THEN v
    ELSE Populated(ArrayLoop([s   |-> [v.s EXCEPT !.image_data = <<>>],
                              res |-> v.res,
                              dz  |-> v.dz,
                              src |-> PayloadOffset(v.s.has_DXT10_header),
                              next |-> TRUE,
                              j |-> 0, i |-> 0, w |-> 0, h |-> 0, d |-> 0]))

populate_image_data(s) == PopulateVerified(verify_header(s))

(***************************************************************************)
(* load(std::vector<uint8_t>&&).                                           *)
(***************************************************************************)
\* for (i = 0; i < 4; i++) if (_dds[i] != Magic[i]) return "Magic number not found"
MagicFound(magic) == \A i \in 1..4 : magic[i] = Magic[i]

\* (sizeof(uint32_t) + sizeof(Header)) >= _dds.size()
HeaderMissing(size) == SizeofMagic + SizeofHeader >= size

\* A variant that checks the length of the header before the magic number.
StructuralErrorSizeFirst(buf) ==
    IF buf.size < 4 THEN "FileTooSmallForMagic"
    ELSE IF HeaderMissing(buf.size) THEN "FileTooSmallForHeader"
    ELSE IF ~MagicFound(buf.magic) THEN "MagicNumberNotFound"
    ELSE ""

\* The three structural checks, in the order the source makes them; "" when
\* the buffer passes them.
StructuralError(buf) ==
    IF buf.size < 4 THEN "FileTooSmallForMagic"
    ELSE IF ~MagicFound(buf.magic) THEN "MagicNumberNotFound"
    ELSE IF HeaderMissing(buf.size) THEN "FileTooSmallForHeader"
    ELSE ""

load(s, buf) ==
    LET s0 == [s EXCEPT !.dds = EmptyBuffer]
    IN  IF StructuralError(buf) # ""
        THEN [s |-> s0, res |-> MkResult(Error, <<StructuralError(buf)>>), dz |-> FALSE]
        ELSE verify_header([s0 EXCEPT !.header = buf.hdr, !.dds = buf])

(***************************************************************************)
(* get_image_data: the index of the returned element of image_data         *)
(* (counted from 0), or NullIdx for nullptr.                               *)
(***************************************************************************)
get_image_data(s, mipIdx, arrayIdx) ==
    IF mipIdx < s.header.mipmap_count /\ arrayIdx < s.header_DXT10.array_size
    THEN s.header.mipmap_count * arrayIdx + mipIdx
    ELSE NullIdx

(***************************************************************************)
(* Input buffers.  Each family builds files around the decisions of the    *)
(* loader: the structural checks, the mip count, the size of a level, the  *)
(* truncation of the payload.                                              *)
(***************************************************************************)
TextureFlags == {0, 1, 2, 12}

\* A DX10 file: FourCC flag, FourCC "DX10", extended header naming fmt.
Dx10Header(w, h, d, mips, bit_count) ==
    MkHeader(SizeofHeader, TextureFlags, h, w, 0, d, mips,
             MkPixelFormat(SizeofPixelFormat, FourCC, FOURCC_DX10, bit_count, NoMasks), {})

\* The same file with other values in the fields the DX10 path ignores.
Dx10HeaderAlt(w, h, d, mips, bit_count) ==
    MkHeader(0, {}, h, w, 7, d, mips,
             MkPixelFormat(0, FourCC \cup RGB, FOURCC_DX10, bit_count,
                           <<0..7, 8..15, 16..23, 24..31>>), CubemapAllFaces)

Rgba8DXT10(array_size) == MkHeaderDXT10(R8G8B8A8_UNorm, Texture2D, {}, array_size, 0)

\* A DX9 file described by bit masks: 32 bits per pixel, no FourCC.
Rgb32Header(w, h, mips, bit_count) ==
    MkHeader(SizeofHeader, TextureFlags, h, w, 4 * w, 0, mips,
             MkPixelFormat(SizeofPixelFormat, RGB \cup AlphaPixels, 0, bit_count,
                           <<16..23, 8..15, 0..7, 24..31>>), {})

\* A DX9 file with a FourCC.
FourCCHeader(w, h, mips, fourCC, caps2) ==
    MkHeader(SizeofHeader, TextureFlags, h, w, 0, 0, mips,
             MkPixelFormat(SizeofPixelFormat, FourCC, fourCC, 0, NoMasks), caps2)

\* Bytes of a chain of mips levels of bytesPerTexel * w * h bytes each.
RECURSIVE ChainBytes(_, _, _, _)
ChainBytes(w, h, mips, bytesPerTexel) ==
    IF mips = 0 THEN 0
    ELSE bytesPerTexel * w * h
         + ChainBytes(Max(1, w \div 2), Max(1, h \div 2), mips - 1, bytesPerTexel)

Dx10Offset == SizeofMagic + SizeofHeader + SizeofHeaderDXT10
Dx9Offset == SizeofMagic + SizeofHeader

BadMagics == {<<"D", "D", "S", "X">>, <<"X", "D", "S", " ">>}

StructuralSizes == {0, 3, 4, 100, 127, 128, 129, 147, 148, 149, 164}

StructuralInputs ==
    {MkBuffer(n, m, Dx10Header(2, 2, 1, 1, 0), Rgba8DXT10(1)) :
        n \in StructuralSizes, m \in {Magic} \cup BadMagics}
    \cup {MkBuffer(n, m, Rgb32Header(2, 2, 1, 32), ZeroHeaderDXT10) :
        n \in StructuralSizes, m \in {Magic} \cup BadMagics}

RawMipCounts == {0, 1, 2, 3, 31, 32, 33}

MipCountInputs ==
    {MkBuffer(Dx10Offset + ChainBytes(4, 4, 31, 4), Magic,
              Dx10Header(4, 4, 1, m, 0), Rgba8DXT10(1)) : m \in RawMipCounts}
    \cup {MkBuffer(Dx9Offset + ChainBytes(4, 4, 31, 4), Magic,
                   Rgb32Header(4, 4, m, 32), ZeroHeaderDXT10) : m \in RawMipCounts}

Rgba8Inputs ==
    {MkBuffer(Dx10Offset + ChainBytes(w, h, m, 4), Magic,
              Dx10Header(w, h, d, m, bc), Rgba8DXT10(1)) :
        w \in {1, 2, 4}, h \in {1, 3}, m \in {1, 2, 3}, bc \in {0, 16, 32}, d \in {0, 1}}
    \cup {MkBuffer(Dx10Offset + ChainBytes(w, h, m, 4), Magic,
                   Dx10HeaderAlt(w, h, 5, m, bc), Rgba8DXT10(1)) :
        w \in {1, 2, 4}, h \in {1, 3}, m \in {1, 2, 3}, bc \in {0, 16, 32}}

\* Files cut short by k bytes.
TruncatedInputs ==
    {MkBuffer(Dx10Offset + a * ChainBytes(4, 4, m, 4) - k, Magic,
              Dx10Header(4, 4, 1, m, 0), Rgba8DXT10(a)) :
        a \in {1, 2}, m \in {2, 3}, k \in {1, 4, 16, 17, 81, 97}}
    \cup {MkBuffer(Dx9Offset + ChainBytes(4, 4, 2, 4) - k, Magic,
                   Rgb32Header(4, 4, 2, 32), ZeroHeaderDXT10) : k \in {1, 17}}

OddInputs ==
    {\* 129 bits per pixel: level 1 is 17 bytes for one texel
     MkBuffer(Dx9Offset + 64, Magic, Rgb32Header(2, 1, 2, 129), ZeroHeaderDXT10),
     \* width 0 in the table path and in the pitch path
     MkBuffer(Dx10Offset + 16, Magic, Dx10Header(0, 2, 1, 1, 0), Rgba8DXT10(1)),
     MkBuffer(Dx9Offset + 16, Magic, Rgb32Header(0, 2, 1, 0), ZeroHeaderDXT10),
     \* pitch path: 8 / 2 = 4 per texel, and 7 not divisible by 2
     MkBuffer(Dx9Offset + 16, Magic,
              [Rgb32Header(2, 2, 1, 0) EXCEPT !.pitch_or_linear_size = 8], ZeroHeaderDXT10),
     MkBuffer(Dx9Offset + 16, Magic,
              [Rgb32Header(2, 2, 1, 0) EXCEPT !.pitch_or_linear_size = 7], ZeroHeaderDXT10),
     MkBuffer(Dx9Offset + 16, Magic,
              [Rgb32Header(2, 2, 1, 0) EXCEPT !.pitch_or_linear_size = 1], ZeroHeaderDXT10),
     \* no bits per pixel can be deduced
     MkBuffer(Dx9Offset + 16, Magic,
              [Rgb32Header(2, 2, 1, 0) EXCEPT !.pitch_or_linear_size = 0], ZeroHeaderDXT10),
     \* block compressed, cubemap, palette
     MkBuffer(Dx9Offset + ChainBytes(1, 1, 3, 8), Magic,
              FourCCHeader(4, 4, 3, FOURCC_DXT1, {}), ZeroHeaderDXT10),
     MkBuffer(Dx9Offset + 6 * 16, Magic,
              FourCCHeader(4, 4, 1, FOURCC_DXT5, CubemapAllFaces), ZeroHeaderDXT10),
     MkBuffer(Dx10Offset + 16, Magic, Dx10Header(2, 2, 1, 1, 0),
              MkHeaderDXT10(P8, Texture2D, {}, 1, 0)),
     \* a DX10 cubemap of two cubes
     MkBuffer(Dx10Offset + 12 * 16, Magic, Dx10Header(2, 2, 1, 1, 0),
              MkHeaderDXT10(R8G8B8A8_UNorm, Texture2D, TextureCube, 2, 0)),
     \* FourCC "DX10" with the FourCC flag clear
     MkBuffer(Dx10Offset + 16, Magic,
              [Dx10Header(2, 2, 1, 1, 0) EXCEPT !.pixel_format.flags = {}], Rgba8DXT10(1)),
     \* extended header with array_size 0, a 3D texture
     MkBuffer(Dx10Offset + 16, Magic, Dx10Header(2, 2, 1, 1, 0), Rgba8DXT10(0)),
     MkBuffer(Dx10Offset + 32, Magic,
              [Dx10Header(2, 2, 2, 1, 0) EXCEPT !.flags = TextureFlags \cup Depth],
              MkHeaderDXT10(R8G8B8A8_UNorm, Texture3D, {}, 1, 0))}
    \* bit-masked files without FourCC: 32-bit RGBA, 16-bit 5:6:5, 8-bit
    \* luminance, and 24-bit RGB
    \cup {MkBuffer(Dx9Offset + 16, Magic,
                   [Rgb32Header(2, 2, 1, 32) EXCEPT
                       !.pixel_format.flags = RGB \cup AlphaPixels,
                       !.pixel_format.masks = <<0..7, 8..15, 16..23, 24..31>>],
                   ZeroHeaderDXT10),
          MkBuffer(Dx9Offset + 16, Magic,
                   [Rgb32Header(2, 2, 1, 32) EXCEPT
                       !.pixel_format.flags = RGB,
                       !.pixel_format.masks = <<0..7, 8..15, 16..23, 24..31>>],
                   ZeroHeaderDXT10),
          MkBuffer(Dx9Offset + 8, Magic,
                   [Rgb32Header(2, 2, 1, 16) EXCEPT
                       !.pixel_format.flags = RGB,
                       !.pixel_format.masks = <<11..15, 5..10, 0..4, {}>>],
                   ZeroHeaderDXT10),
          MkBuffer(Dx9Offset + 4, Magic,
                   [Rgb32Header(2, 2, 1, 8) EXCEPT
                       !.pixel_format.flags = Luminance,
                       !.pixel_format.masks = <<0..7, {}, {}, {}>>],
                   ZeroHeaderDXT10),
          MkBuffer(Dx9Offset + 12, Magic,
                   [Rgb32Header(2, 2, 1, 24) EXCEPT
                       !.pixel_format.flags = RGB,
                       !.pixel_format.masks = <<16..23, 8..15, 0..7, {}>>],
                   ZeroHeaderDXT10)}
    \* levels whose size in bits or in bytes is 2^32 or more
    \cup {MkBuffer(Dx9Offset + 16, Magic,
                   [Rgb32Header(65536, 65536, 1, 32) EXCEPT !.pixel_format.flags = RGB],
                   ZeroHeaderDXT10),
          MkBuffer(Dx9Offset + 16, Magic,
                   [Rgb32Header(32768, 32768, 1, 32) EXCEPT !.pixel_format.flags = RGB],
                   ZeroHeaderDXT10),
          MkBuffer(Dx10Offset + 16, Magic, Dx10Header(32768, 32768, 1, 1, 0), Rgba8DXT10(1))}
    \* masks with a gap above the lowest run, a run that ends at bit 31, and
    \* the full mask
    \cup {MkBuffer(Dx9Offset + 16, Magic,
                   [Rgb32Header(2, 2, 1, 32) EXCEPT
                       !.pixel_format.flags = RGB,
                       !.pixel_format.masks = <<r, g, {31}, {}>>],
                   ZeroHeaderDXT10) :
             r \in {0..31, {0, 2}, {1, 2, 4}}, g \in {{3} \cup (5..31), {30, 31}}}
    \* the YUV and Luminance flags over a swizzle code in bit_count, over a
    \* canonical format with a color transform of its own, and over a FourCC
    \* that the dispatch tags
    \cup {MkBuffer(Dx10Offset + 16, Magic,
                   [Dx10Header(2, 2, 1, 1, bc) EXCEPT !.pixel_format.flags = FourCC \cup fl],
                   MkHeaderDXT10(f, Texture2D, {}, 1, 0)) :
               fl \in {Luminance, YUV, Luminance \cup YUV}, bc \in {0, FOURCC_A2XY},
               f \in {R8G8B8A8_UNorm, B8G8R8A8_UNorm}}
    \cup {MkBuffer(Dx9Offset + 8, Magic,
                   [FourCCHeader(2, 2, 1, D3DFMT_L16, {}) EXCEPT
                       !.pixel_format.flags = FourCC \cup fl], ZeroHeaderDXT10) :
               fl \in {{}, YUV}}
    \* the palette formats in an extended header, without and with bit masks
    \cup {MkBuffer(Dx10Offset + 16, Magic,
                   [Dx10Header(2, 2, 1, 1, 0) EXCEPT !.pixel_format.masks = m],
                   MkHeaderDXT10(f, Texture2D, {}, 1, 0)) :
               f \in PaletteFormats, m \in {NoMasks, <<16..23, 8..15, 0..7, 24..31>>}}
    \* complete files of two slices and three levels, and of a 3D texture of
    \* two levels
    \cup {MkBuffer(Dx10Offset + 2 * ChainBytes(4, 2, 3, 4), Magic,
                   Dx10Header(4, 2, 1, 3, 0), Rgba8DXT10(2)),
          MkBuffer(Dx10Offset + 4 * 4 * 2 * 4 + 2 * 2 * 1 * 4, Magic,
                   [Dx10Header(4, 4, 2, 2, 0) EXCEPT !.flags = TextureFlags \cup Depth],
                   MkHeaderDXT10(R8G8B8A8_UNorm, Texture3D, {}, 1, 0))}
    \* FourCC "DXT1" with and without the FourCC flag, over other field values
    \cup {MkBuffer(Dx9Offset + 8, Magic,
                   [FourCCHeader(4, 4, 1, FOURCC_DXT1, {}) EXCEPT
                       !.pixel_format.flags = f, !.pixel_format.bit_count = bc,
                       !.pixel_format.masks = m], ZeroHeaderDXT10) :
            f \in {{}, FourCC, RGB}, bc \in {0, 16, 32},
            m \in {NoMasks, <<16..23, 8..15, 0..7, 24..31>>}}

BufferInputs ==
    StructuralInputs \cup MipCountInputs \cup Rgba8Inputs \cup TruncatedInputs \cup OddInputs

\* The buffers offered to a load that follows another operation.
ReloadInputs ==
    {MkBuffer(100, Magic, ZeroHeader, ZeroHeaderDXT10),
     MkBuffer(164, <<"D", "D", "S", "X">>, Dx10Header(2, 2, 1, 1, 0), Rgba8DXT10(1)),
     MkBuffer(148, Magic, Dx10Header(2, 2, 1, 1, 0), Rgba8DXT10(1)),
     MkBuffer(Dx10Offset + 16, Magic, Dx10Header(2, 2, 1, 1, 0), Rgba8DXT10(1)),
     MkBuffer(Dx9Offset + 80, Magic, Rgb32Header(4, 4, 2, 32), ZeroHeaderDXT10),
     MkBuffer(Dx9Offset + ChainBytes(1, 1, 3, 8), Magic,
              FourCCHeader(4, 4, 3, FOURCC_DXT1, {}), ZeroHeaderDXT10)}

\* Header is not initialized by the constructor: before the first load it
\* holds whatever the storage held.
InitHeaders == {ZeroHeader, Rgb32Header(2, 2, 1, 32)}

(***************************************************************************)
(* State: the data members of smalldds::DDSFile, the history of the calls  *)
(* made on it, and the image handed to tinyddsloader's Flip.               *)
(***************************************************************************)
VARIABLES
    dds, image_data, header, has_DXT10_header, header_DXT10, is_cubemap,
    compression, bpp, num_channels, alpha_mode, color_transform, bitmasked,
    bitmask_has_alpha, bitmask_has_rgb, bitmask_was_bump_du_dv, bit_counts,
    right_shifts, m_header_verified,
    ops,            \* the calls made so far: "load" or "populate"
    lastRes,        \* the Result returned by the last call
    lastBuf,        \* the buffer given to the last load
    header_loaded,  \* a load has copied a header into the object
    crashed,        \* a division by zero has trapped
    m_format,       \* tinyddsloader: m_headerDXT10.format
    m_imageDatas,   \* tinyddsloader: the images Flip works on
    flips,          \* the number of calls of Flip made
    origDatas,      \* the images before the first Flip
    flipRet         \* what the last Flip returned

ddsVars ==
    <<dds, image_data, header, has_DXT10_header, header_DXT10, is_cubemap,
      compression, bpp, num_channels, alpha_mode, color_transform, bitmasked,
      bitmask_has_alpha, bitmask_has_rgb, bitmask_was_bump_du_dv, bit_counts,
      right_shifts, m_header_verified>>

histVars == <<ops, lastRes, lastBuf, header_loaded, crashed>>

flipVars == <<m_format, m_imageDatas, flips, origDatas, flipRet>>

vars == <<ddsVars, histVars, flipVars>>

\* The object as the record the routines above take and return.
Self ==
    [dds |-> dds, image_data |-> image_data, header |-> header,
     has_DXT10_header |-> has_DXT10_header, header_DXT10 |-> header_DXT10,
     is_cubemap |-> is_cubemap, compression |-> compression, bpp |-> bpp,
     num_channels |-> num_channels, alpha_mode |-> alpha_mode,
     color_transform |-> color_transform, bitmasked |-> bitmasked,
     bitmask_has_alpha |-> bitmask_has_alpha, bitmask_has_rgb |-> bitmask_has_rgb,
     bitmask_was_bump_du_dv |-> bitmask_was_bump_du_dv, bit_counts |-> bit_counts,
     right_shifts |-> right_shifts, m_header_verified |-> m_header_verified]

Assign(s) ==
    /\ dds' = s.dds
    /\ image_data' = s.image_data
    /\ header' = s.header
    /\ has_DXT10_header' = s.has_DXT10_header
    /\ header_DXT10' = s.header_DXT10
    /\ is_cubemap' = s.is_cubemap
    /\ compression' = s.compression
    /\ bpp' = s.bpp
    /\ num_channels' = s.num_channels
    /\ alpha_mode' = s.alpha_mode
    /\ color_transform' = s.color_transform
    /\ bitmasked' = s.bitmasked
    /\ bitmask_has_alpha' = s.bitmask_has_alpha
    /\ bitmask_has_rgb' = s.bitmask_has_rgb
    /\ bitmask_was_bump_du_dv' = s.bitmask_was_bump_du_dv
    /\ bit_counts' = s.bit_counts
    /\ right_shifts' = s.right_shifts
    /\ m_header_verified' = s.m_header_verified

\* A call returns r: the members it wrote and its Result.
Returned(r) ==
    /\ Assign(r.s)
    /\ lastRes' = r.res

\* The members after construction; header and is_cubemap have no initializer.
Constructed(hdr, cube) ==
    /\ dds = EmptyBuffer
    /\ image_data = <<>>
    /\ header = hdr
    /\ has_DXT10_header = FALSE
    /\ header_DXT10 = DefaultHeaderDXT10
    /\ is_cubemap = cube
    /\ compression = "None"
    /\ bpp = 0
    /\ num_channels = 0
    /\ alpha_mode = ALPHA_MODE_UNKNOWN
    /\ color_transform = "eNone"
    /\ bitmasked = FALSE
    /\ bitmask_has_alpha = FALSE
    /\ bitmask_has_rgb = FALSE
    /\ bitmask_was_bump_du_dv = FALSE
    /\ bit_counts = [i \in 1..4 |-> 0]
    /\ right_shifts = [i \in 1..4 |-> 0]
    /\ m_header_verified = FALSE

NoHistory ==
    /\ ops = <<>>
    /\ lastRes = MkResult(Success, <<>>)
    /\ lastBuf = EmptyBuffer
    /\ header_loaded = FALSE
    /\ crashed = FALSE

\* The loader model never touches the flipper's object.
NoFlip ==
    /\ m_format = Format_Unknown
    /\ m_imageDatas = <<>>
    /\ flips = 0
    /\ origDatas = <<>>
    /\ flipRet = TRUE

Init ==
    /\ \E hdr \in InitHeaders, cube \in BOOLEAN : Constructed(hdr, cube)
    /\ NoHistory
    /\ NoFlip

LoadInputs == IF ops = <<>> THEN BufferInputs ELSE ReloadInputs

CanCall == ~crashed /\ Len(ops) < MaxOps

\* load(std::vector<uint8_t>&&) returns.
Load ==
    /\ CanCall
    /\ \E buf \in LoadInputs :
        /\ Returned(load(Self, buf))
        /\ lastBuf' = buf
        /\ header_loaded' = (header_loaded \/ StructuralError(buf) = "")
    /\ ops' = Append(ops, "load")
    /\ UNCHANGED <<crashed, flipVars>>

\* load divides by zero and the division traps.
LoadTrap ==
    /\ CanCall
    /\ \E buf \in LoadInputs :
        /\ load(Self, buf).dz
        /\ lastBuf' = buf
    /\ ops' = Append(ops, "load")
    /\ crashed' = TRUE
    /\ UNCHANGED <<ddsVars, lastRes, header_loaded, flipVars>>

\* populate_image_data returns.
Populate ==
    /\ CanCall
    /\ Returned(populate_image_data(Self))
    /\ ops' = Append(ops, "populate")
    /\ UNCHANGED <<lastBuf, header_loaded, crashed, flipVars>>

\* populate_image_data divides by zero and the division traps.
PopulateTrap ==
    /\ CanCall
    /\ populate_image_data(Self).dz
    /\ ops' = Append(ops, "populate")
    /\ crashed' = TRUE
    /\ UNCHANGED <<ddsVars, lastRes, lastBuf, header_loaded, flipVars>>

Next == Load \/ LoadTrap \/ Populate \/ PopulateTrap

Spec == Init /\ [][Next]_vars

(***************************************************************************)
(* Properties of the loader.                                               *)
(***************************************************************************)
LastOp == IF ops = <<>> THEN "none" ELSE ops[Len(ops)]

\* The step is a call of populate_image_data that returns.
PopulateStep == ops' = Append(ops, "populate") /\ ~crashed'

\* The first load on a new object has returned.
FreshLoad == ops = <<"load">> /\ ~crashed

SizeErrors == {"FileTooSmallForMagic", "FileTooSmallForHeader", "FileTooSmallForDXT10Header"}

\* The Result is an Error whose last message is one of the size errors.
IsSizeError(res) ==
    /\ res.type = Error
    /\ res.message # <<>>
    /\ res.message[Len(res.message)] \in SizeErrors

\* Dimension of mip level i of a texture whose level 0 measures x.
LevelDim(x, i) == Max(1, x \div (2 ^ i))

\* C1: a load on a fresh object that returns below Error leaves mip_count() in
\* 1..31: a raw mipmap_count of 0 becomes 1, a raw count in 1..31 is kept, and
\* a raw count of 32 or more becomes 1 with a Warning in the returned Result.
C1_MipCountValidated ==
    (FreshLoad /\ lastRes.type < Error) =>
        LET raw == lastBuf.hdr.mipmap_count
        IN  /\ header.mipmap_count \in 1..31
            /\ (raw = 0 => header.mipmap_count = 1)
            /\ (raw \in 1..31 => header.mipmap_count = raw)
            /\ (raw >= 32 => /\ header.mipmap_count = 1
                             /\ lastRes.type = Warning
                             /\ HasMessage(lastRes, "MipCountTooLarge"))

C1_Witness ==
    /\ FreshLoad
    /\ lastRes.type < Error
    /\ lastBuf.hdr.mipmap_count = 33
    /\ header.mipmap_count = 1
    /\ HasMessage(lastRes, "MipCountTooLarge")

\* C2: a buffer shorter than 128 bytes (with nothing wrong in the magic bytes
\* it has) makes load fail with a size error, and every populate_image_data
\* that follows that load leaves image_data empty, whatever was called on the
\* object before.
C2_ShortBufferYieldsNothing ==
    (/\ ~crashed
     /\ \E k \in 1..Len(ops) : ops[k] = "load"
     /\ lastBuf.size < SizeofMagic + SizeofHeader
     /\ lastBuf.magic = SubSeq(Magic, 1, Len(lastBuf.magic))) =>
        /\ (LastOp = "load" => IsSizeError(lastRes))
        /\ (LastOp = "populate" /\ header_loaded => image_data = <<>>)

\* C3: a load of a buffer whose first four bytes are not "DDS " fails with
\* the magic error and with no other message, whatever else the buffer holds,
\* however long it is and whatever state the object was in.
C3_MagicError ==
    (/\ ~crashed
     /\ LastOp = "load"
     /\ lastBuf.size >= 4
     /\ lastBuf.magic # Magic) =>
        lastRes = MkResult(Error, <<"MagicNumberNotFound">>)

C3_Witness ==
    /\ ~crashed
    /\ Len(ops) >= 2
    /\ LastOp = "load"
    /\ lastBuf.size = 164
    /\ lastBuf.magic = <<"D", "D", "S", "X">>
    /\ lastRes = MkResult(Error, <<"MagicNumberNotFound">>)
    /\ m_header_verified

\* The header names the extended header: FourCC flag set, FourCC "DX10".
NamesDX10(hdr) ==
    /\ (hdr.pixel_format.flags \cap FourCC) # {}
    /\ hdr.pixel_format.fourCC = FOURCC_DX10

\* C4: on a fresh object, a file whose FourCC is "DX10" (FourCC flag set)
\* passes the extended-header size check and gets has_DXT10_header when it has
\* 148 bytes or more, and fails with a size error when it has fewer.
C4_ExtendedHeaderNeeds148 ==
    (/\ FreshLoad
     /\ lastBuf.magic = Magic
     /\ lastBuf.size >= SizeofMagic + SizeofHeader
     /\ NamesDX10(lastBuf.hdr)) =>
        IF lastBuf.size >= SizeofMagic + SizeofHeader + SizeofHeaderDXT10
        THEN has_DXT10_header /\ ~IsSizeError(lastRes)
        ELSE IsSizeError(lastRes)

\* The mip count that verify_header keeps for a raw count.
KeptMipCount(raw) == IF raw = 0 \/ raw >= 32 THEN 1 ELSE raw

\* C5: a file whose extended header names R8G8B8A8_UNorm, a 2D texture and
\* array_size 1, in a buffer long enough for all its levels, is laid out as
\* mip_count entries, entry i of 4 * max(1, w >> i) * max(1, h >> i) bytes,
\* whatever the other header fields (bit_count among them) hold.
C5_Rgba8LevelSizes ==
    (/\ ops = <<"load", "populate">>
     /\ ~crashed
     /\ lastBuf.magic = Magic
     /\ lastBuf.size > SizeofMagic + SizeofHeader + SizeofHeaderDXT10
     /\ NamesDX10(lastBuf.hdr)
     /\ lastBuf.hdr10 = MkHeaderDXT10(R8G8B8A8_UNorm, Texture2D, {}, 1, 0)
     /\ lastBuf.hdr.width >= 1
     /\ lastBuf.hdr.height >= 1
     /\ lastBuf.size >= SizeofMagic + SizeofHeader + SizeofHeaderDXT10
                        + ChainBytes(lastBuf.hdr.width, lastBuf.hdr.height,
                                     KeptMipCount(lastBuf.hdr.mipmap_count), 4)) =>
        /\ Len(image_data) = KeptMipCount(lastBuf.hdr.mipmap_count)
        /\ header.mipmap_count = KeptMipCount(lastBuf.hdr.mipmap_count)
        /\ \A i \in 0..(Len(image_data) - 1) :
               image_data[i + 1].length =
                   4 * LevelDim(lastBuf.hdr.width, i) * LevelDim(lastBuf.hdr.height, i)

\* C6: after populate_image_data every span lies inside the raw buffer: the
\* first starts at byte 128, or 148 with an extended header, each next one
\* starts where the one before it ends, and none ends past dds.size().
C6_SpansInsideBuffer ==
    (~crashed /\ header_loaded /\ LastOp = "populate") =>
        \A k \in 1..Len(image_data) :
            /\ image_data[k].offset =
                   IF k = 1 THEN (IF has_DXT10_header THEN 148 ELSE 128)
                   ELSE image_data[k - 1].offset + image_data[k - 1].length
            /\ image_data[k].offset + image_data[k].length <= dds.size

\* Size the code computes for level i in the current state, and the bytes of
\* the levels before level n.
LevelBytes(i) ==
    image_data_size(Self, LevelDim(header.width, i), LevelDim(header.height, i),
                    LevelDim(header.depth, i), lastRes).size

RECURSIVE BytesBefore(_)
BytesBefore(n) == IF n = 0 THEN 0 ELSE BytesBefore(n - 1) + LevelBytes(n - 1)

LevelTexels(i) ==
    LevelDim(header.width, i) * LevelDim(header.height, i) * LevelDim(header.depth, i)

\* A verified one-slice file of two or more levels whose last level alone
\* does not fit in the bytes that remain; every level has a size above zero
\* and the levels before the last pass the 16-bytes-per-texel plausibility test.
OnlyFinalLevelTruncated ==
    /\ m_header_verified
    /\ header_DXT10.array_size = 1
    /\ header.mipmap_count >= 2
    /\ header.width >= 1 /\ header.height >= 1 /\ header.depth >= 1
    /\ \A i \in 0..(header.mipmap_count - 1) : LevelBytes(i) > 0
    /\ \A i \in 0..(header.mipmap_count - 2) : LevelBytes(i) \div LevelTexels(i) <= 16
    /\ PayloadOffset(has_DXT10_header) + BytesBefore(header.mipmap_count - 1) <= dds.size
    /\ PayloadOffset(has_DXT10_header) + BytesBefore(header.mipmap_count) > dds.size

\* C7: populate_image_data on a one-slice file of mip_count >= 2 levels in
\* which only the last level exceeds the bytes remaining returns Warning,
\* leaves exactly the earlier levels with their dimensions and spans, and
\* reduces mip_count to mip_count - 1 and array_size to 1.
C7_TruncatedFinalLevel ==
    [][(OnlyFinalLevelTruncated /\ PopulateStep) =>
          /\ lastRes'.type = Warning
          /\ Len(image_data') = header.mipmap_count - 1
          /\ \A i \in 0..(header.mipmap_count - 2) :
                 image_data'[i + 1] =
                     [width  |-> LevelDim(header.width, i),
                      height |-> LevelDim(header.height, i),
                      depth  |-> LevelDim(header.depth, i),
                      offset |-> PayloadOffset(has_DXT10_header) + BytesBefore(i),
                      length |-> LevelBytes(i)]
          /\ header'.mipmap_count = header.mipmap_count - 1
          /\ header_DXT10'.array_size = 1]_vars

C7_Witness ==
    /\ ops = <<"load", "populate">>
    /\ ~crashed
    /\ lastBuf.hdr.mipmap_count = 3
    /\ lastBuf.hdr10.array_size = 1
    /\ lastRes.type = Warning
    /\ HasMessage(lastRes, "ImageDataPastEnd")
    /\ header.mipmap_count = 2
    /\ header_DXT10.array_size = 1
    /\ Len(image_data) = 2

\* C8: in every state get_image_data(mip, array) returns nullptr or a pointer
\* to an element of image_data: a returned index is below image_data.size().
C8_GetImageDataInRange ==
    (~crashed /\ header_loaded) =>
        \A mipIdx \in 0..MaxIdx, arrayIdx \in 0..MaxIdx :
            \/ get_image_data(Self, mipIdx, arrayIdx) = NullIdx
            \/ get_image_data(Self, mipIdx, arrayIdx) < Len(image_data)

\* C9: a second populate_image_data right after the first leaves image_data,
\* mip_count and array_size as the first left them, for every loaded file.
C9_PopulateIdempotent ==
    [][(/\ ops = <<"load", "populate">>
        /\ header_loaded
        /\ m_header_verified
        /\ ~crashed
        /\ PopulateStep) =>
          /\ image_data' = image_data
          /\ header'.mipmap_count = header.mipmap_count
          /\ header_DXT10'.array_size = header_DXT10.array_size]_vars

(***************************************************************************)
(* tinyddsloader::DDSFile::Flip.  The memory of an image is the sequence   *)
(* of its bytes; a field of a block is named by its offset from the start  *)
(* of the memory (counted from 0, as the pointers of the source).          *)
(***************************************************************************)
MaxFlips == 2
MaxFlipWidth == 5
MaxFlipHeight == 9
MaxFlipMips == 2
MaxSeed == 1

BC1Formats == {BC1_Typeless, BC1_UNorm, BC1_UNorm_SRGB}
BC2Formats == {BC2_Typeless, BC2_UNorm, BC2_UNorm_SRGB}
BC3Formats == {BC3_Typeless, BC3_UNorm, BC3_UNorm_SRGB}
BC4Formats == {BC4_Typeless, BC4_UNorm, BC4_SNorm}
BC5Formats == {BC5_Typeless, BC5_UNorm, BC5_SNorm}

IsCompressed(fmt) ==
    fmt \in BC1Formats \cup BC2Formats \cup BC3Formats \cup BC4Formats \cup BC5Formats
            \cup {BC6H_Typeless, BC6H_UF16, BC6H_SF16, BC7_Typeless, BC7_UNorm, BC7_UNorm_SRGB}

\* sizeof(BC1Block) ... sizeof(BC5Block)
BlockBytes(fmt) == IF fmt \in BC1Formats \cup BC4Formats THEN 8 ELSE 16

\* GetBitsPerPixel, for the uncompressed formats the model flips.
GetBitsPerPixel(fmt) ==
    CASE fmt = R8G8B8A8_UNorm -> 32
      [] fmt = B5G6R5_UNorm -> 16
      [] OTHER -> 0

\* GetImageInfo: the block-compressed branch and the default branch.
GetImageInfo(w, h, fmt) ==
    IF IsCompressed(fmt)
    THEN LET numBlocksWide == IF w > 0 THEN Max(1, (w + 3) \div 4) ELSE 0
             numBlocksHigh == IF h > 0 THEN Max(1, (h + 3) \div 4) ELSE 0
             rowBytes      == numBlocksWide * BlockBytes(fmt)
         IN  [numBytes |-> rowBytes * numBlocksHigh, rowBytes |-> rowBytes]
    ELSE LET rowBytes == (w * GetBitsPerPixel(fmt) + 7) \div 8
         IN  [numBytes |-> rowBytes * h, rowBytes |-> rowBytes]

\* std::swap of the bytes at offsets i and j.
SwapBytes(mem, i, j) == [mem EXCEPT ![i + 1] = mem[j + 1], ![j + 1] = mem[i + 1]]

\* The swaps of a list of pairs of offsets, in order.
RECURSIVE SwapFrom(_, _)
SwapFrom(st, pairs) ==
    IF st.k > Len(pairs) THEN st.mem
    ELSE SwapFrom([mem |-> SwapBytes(st.mem, pairs[st.k][1], pairs[st.k][2]),
                   k   |-> st.k + 1], pairs)

SwapAll(mem, pairs, k) == SwapFrom([mem |-> mem, k |-> k], pairs)

\* A variant that takes the low nibble of a where the source shifts a right.
PackUnshifted(a, b) == (a % 16) + (b % 16) * 16

\* uint8_t r = (a >> 4) | (b << 4)
Pack(a, b) == (a \div 16) + (b % 16) * 16

\* A variant that reverses the six index bytes as whole bytes.
ReversedIndicesByBytes(mem, t) ==
    <<mem[t + 6], mem[t + 5], mem[t + 4], mem[t + 3], mem[t + 2], mem[t + 1]>>

\* The six index bytes at offset t re-packed with their two halves
\* exchanged (r[0] ... r[5] of the source).
ReversedIndices(mem, t) ==
    <<Pack(mem[t + 5], mem[t + 6]), Pack(mem[t + 6], mem[t + 4]),
      Pack(mem[t + 4], mem[t + 5]), Pack(mem[t + 2], mem[t + 3]),
      Pack(mem[t + 3], mem[t + 1]), Pack(mem[t + 1], mem[t + 2])>>

\* The six index bytes at offset t with the rows of each half exchanged
\* (r0 ... r5 of the height == 2 branch).
HalfSwappedIndices(mem, t) ==
    <<Pack(mem[t + 2], mem[t + 3]), Pack(mem[t + 3], mem[t + 1]),
      Pack(mem[t + 1], mem[t + 2]), Pack(mem[t + 5], mem[t + 6]),
      Pack(mem[t + 6], mem[t + 4]), Pack(mem[t + 4], mem[t + 5])>>

\* The assignment of six bytes r to the index bytes at offset t.
StoreIndices(mem, t, r) ==
    [mem EXCEPT ![t + 1] = r[1], ![t + 2] = r[2], ![t + 3] = r[3],
                ![t + 4] = r[4], ![t + 5] = r[5], ![t + 6] = r[6]]

\* The pairs of offsets std::swap exchanges for a uint16_t field (f in the
\* block at a, g in the block at b) and for a uint8_t field.
Word(a, f, b, g) == <<<<a + f, b + g>>, <<a + f + 1, b + g + 1>>>>
Byte(a, f, b, g) == <<<<a + f, b + g>>>>

\* m_row0 <-> m_row3 and m_row1 <-> m_row2 and back, between two blocks whose
\* rows start at offsets ra and rb.
RowsReversed(ra, rb) ==
    Byte(ra, 0, rb, 3) \o Byte(ra, 1, rb, 2) \o Byte(ra, 2, rb, 1) \o Byte(ra, 3, rb, 0)

\* m_row0 <-> m_row3 and m_row1 <-> m_row2 inside one block.
RowsReversedInPlace(r) == Byte(r, 0, r, 3) \o Byte(r, 1, r, 2)

\* m_row0 <-> m_row1 and m_row2 <-> m_row3 inside one block.
RowsSwappedInHalves(r) == Byte(r, 0, r, 1) \o Byte(r, 2, r, 3)

\* Exchange of the index tables of two different blocks, each reversed.
ExchangeIndices(mem, ta, tb) ==
    StoreIndices(StoreIndices(mem, ta, ReversedIndices(mem, tb)), tb, ReversedIndices(mem, ta))

(***************************************************************************)
(* The three block operations of each FlipCompressedImageBCn: on a block   *)
(* of a two-row image (Half), on two blocks of mirrored block rows (Pair)  *)
(* and on a block of the middle block row (Self).                          *)
(***************************************************************************)
BC1Half(mem, b) == SwapAll(mem, RowsSwappedInHalves(b + 4), 1)

BC1Pair(mem, a, b) ==
    SwapAll(mem, Word(a, 0, b, 0) \o Word(a, 2, b, 2) \o RowsReversed(a + 4, b + 4), 1)

BC1Self(mem, b) == SwapAll(mem, RowsReversedInPlace(b + 4), 1)

BC2Half(mem, b) ==
    SwapAll(mem, Word(b, 0, b, 2) \o Word(b, 4, b, 6) \o RowsSwappedInHalves(b + 12), 1)

BC2Pair(mem, a, b) ==
    SwapAll(mem, Word(a, 0, b, 6) \o Word(a, 2, b, 4) \o Word(a, 4, b, 2) \o Word(a, 6, b, 0)
                 \o Word(a, 8, b, 8) \o Word(a, 10, b, 10)
                 \o RowsReversed(a + 12, b + 12), 1)

BC2Self(mem, b) ==
    SwapAll(mem, Word(b, 0, b, 6) \o Word(b, 2, b, 4) \o RowsReversedInPlace(b + 12), 1)

BC3Half(mem, b) ==
    SwapAll(StoreIndices(mem, b + 2, HalfSwappedIndices(mem, b + 2)),
            RowsSwappedInHalves(b + 12), 1)

BC3Pair(mem, a, b) ==
    SwapAll(ExchangeIndices(SwapAll(mem, Byte(a, 0, b, 0) \o Byte(a, 1, b, 1), 1),
                            a + 2, b + 2),
            Word(a, 8, b, 8) \o Word(a, 10, b, 10) \o RowsReversed(a + 12, b + 12), 1)

BC3Self(mem, b) ==
    SwapAll(StoreIndices(mem, b + 2, ReversedIndices(mem, b + 2)),
            RowsReversedInPlace(b + 12), 1)

BC4Half(mem, b) == StoreIndices(mem, b + 2, HalfSwappedIndices(mem, b + 2))

BC4Pair(mem, a, b) ==
    ExchangeIndices(SwapAll(mem, Byte(a, 0, b, 0) \o Byte(a, 1, b, 1), 1), a + 2, b + 2)

BC4Self(mem, b) == StoreIndices(mem, b + 2, ReversedIndices(mem, b + 2))

BC5Half(mem, b) == BC4Half(BC4Half(mem, b), b + 8)

BC5Pair(mem, a, b) == BC4Pair(BC4Pair(mem, a, b), a + 8, b + 8)

BC5Self(mem, b) == BC4Self(BC4Self(mem, b), b + 8)

HalfBlock(fmt, mem, b) ==
    CASE fmt \in BC1Formats -> BC1Half(mem, b)
      [] fmt \in BC2Formats -> BC2Half(mem, b)
      [] fmt \in BC3Formats -> BC3Half(mem, b)
      [] fmt \in BC4Formats -> BC4Half(mem, b)
      [] fmt \in BC5Formats -> BC5Half(mem, b)

PairBlocks(fmt, mem, a, b) ==
    CASE fmt \in BC1Formats -> BC1Pair(mem, a, b)
      [] fmt \in BC2Formats -> BC2Pair(mem, a, b)
      [] fmt \in BC3Formats -> BC3Pair(mem, a, b)
      [] fmt \in BC4Formats -> BC4Pair(mem, a, b)
      [] fmt \in BC5Formats -> BC5Pair(mem, a, b)

SelfBlock(fmt, mem, b) ==
    CASE fmt \in BC1Formats -> BC1Self(mem, b)
      [] fmt \in BC2Formats -> BC2Self(mem, b)
      [] fmt \in BC3Formats -> BC3Self(mem, b)
      [] fmt \in BC4Formats -> BC4Self(mem, b)
      [] fmt \in BC5Formats -> BC5Self(mem, b)

\* for (x = 0; x < numXBlocks; x++) of the height == 2 branch; st holds the
\* loop variable x and the image memory.
RECURSIVE HalfLoop(_, _, _)
HalfLoop(st, fmt, numXBlocks) ==
    IF st.x >= numXBlocks THEN st.mem
    ELSE HalfLoop([mem |-> HalfBlock(fmt, st.mem, st.x * BlockBytes(fmt)),
                   x   |-> st.x + 1], fmt, numXBlocks)

\* for (x = 0; x < numXBlocks; x++) over the block rows at blocks0 and blocks1
RECURSIVE BlockRowLoop(_, _, _, _, _)
BlockRowLoop(st, fmt, numXBlocks, blocks0, blocks1) ==
    IF st.x >= numXBlocks THEN st.mem
    ELSE BlockRowLoop([mem |-> IF blocks0 # blocks1
                               THEN PairBlocks(fmt, st.mem, blocks0 + st.x * BlockBytes(fmt),
                                               blocks1 + st.x * BlockBytes(fmt))
                               ELSE SelfBlock(fmt, st.mem, blocks0 + st.x * BlockBytes(fmt)),
                       x   |-> st.x + 1], fmt, numXBlocks, blocks0, blocks1)

\* for (y = 0; y < (numYBlocks + 1) / 2; y++)
RECURSIVE BlockRowsLoop(_, _, _, _, _)
BlockRowsLoop(st, fmt, numYBlocks, numXBlocks, memPitch) ==
    IF st.y >= (numYBlocks + 1) \div 2 THEN st.mem
    ELSE BlockRowsLoop([mem |-> BlockRowLoop([mem |-> st.mem, x |-> 0], fmt, numXBlocks,
                                             memPitch * st.y,
                                             memPitch * (numYBlocks - st.y - 1)),
                        y   |-> st.y + 1], fmt, numYBlocks, numXBlocks, memPitch)

\* The common body of FlipCompressedImageBC1 ... FlipCompressedImageBC5.
FlipBlocks(imageData, fmt) ==
    LET numXBlocks == (imageData.m_width + 3) \div 4
        numYBlocks == (imageData.m_height + 3) \div 4
    IN  IF imageData.m_height = 1 THEN imageData
        ELSE IF imageData.m_height = 2
        THEN [imageData EXCEPT !.m_mem = HalfLoop([mem |-> @, x |-> 0], fmt, numXBlocks)]
        ELSE [imageData EXCEPT !.m_mem = BlockRowsLoop([mem |-> @, y |-> 0], fmt, numYBlocks,
                                                       numXBlocks, imageData.m_memPitch)]

\* A variant that exchanges the block rows of every other format as rows of
\* bytes and answers true.
FlipCompressedImageAnyFormat(imageData, fmt) ==
    IF fmt \in BC1Formats \cup BC2Formats \cup BC3Formats \cup BC4Formats \cup BC5Formats
    THEN [image |-> FlipBlocks(imageData, fmt), ok |-> TRUE]
    ELSE [image |-> [imageData EXCEPT !.m_mem =
                        [k \in 1..Len(@) |-> @[Len(@) + 1 - k]]],
          ok |-> TRUE]

FlipCompressedImage(imageData, fmt) ==
    IF fmt \in BC1Formats \cup BC2Formats \cup BC3Formats \cup BC4Formats \cup BC5Formats
    THEN [image |-> FlipBlocks(imageData, fmt), ok |-> TRUE]
    ELSE [image |-> imageData, ok |-> FALSE]

\* for (y = 0; y < m_height / 2; y++) swap line y and line m_height - y - 1
RECURSIVE FlipLines(_, _, _)
FlipLines(st, height, memPitch) ==
    IF st.y >= height \div 2 THEN st.mem
    ELSE FlipLines([mem |-> SwapAll(st.mem,
                                    [i \in 1..memPitch |->
                                        <<st.y * memPitch + i - 1,
                                          (height - st.y - 1) * memPitch + i - 1>>], 1),
                    y   |-> st.y + 1], height, memPitch)

FlipImage(imageData) ==
    [imageData EXCEPT !.m_mem = FlipLines([mem |-> @, y |-> 0], imageData.m_height,
                                          imageData.m_memPitch)]

\* One image of Flip's loops: the image after it and whether the loop goes on.
FlipOne(imageData, fmt) ==
    IF IsCompressed(fmt) THEN FlipCompressedImage(imageData, fmt)
    ELSE [image |-> FlipImage(imageData), ok |-> TRUE]

\* Flip: the images in order; the first image that cannot be flipped ends the
\* call with false.
RECURSIVE FlipFrom(_, _, _)
FlipFrom(images, fmt, k) ==
    IF k > Len(images) THEN [images |-> images, ret |-> TRUE]
    ELSE IF ~FlipOne(images[k], fmt).ok THEN [images |-> images, ret |-> FALSE]
    ELSE FlipFrom([images EXCEPT ![k] = FlipOne(images[k], fmt).image], fmt, k + 1)

Flip(images, fmt) == FlipFrom(images, fmt, 1)

(***************************************************************************)
(* The images Flip is given: the mip chain PopulateImageDatas builds for a *)
(* w x h texture, over a payload of bytes that differ from place to place. *)
(***************************************************************************)
PayloadByte(seed, level, k) == (seed * 101 + level * 59 + k * 37 + (k \div 3) * 16 + 7) % 256

MipImage(fmt, w, h, seed, level) ==
    [m_width    |-> w,
     m_height   |-> h,
     m_memPitch |-> GetImageInfo(w, h, fmt).rowBytes,
     m_mem      |-> [k \in 1..GetImageInfo(w, h, fmt).numBytes |-> PayloadByte(seed, level, k)]]

RECURSIVE MipImages(_, _, _, _, _, _)
MipImages(fmt, w, h, seed, level, mips) ==
    IF level >= mips THEN <<>>
    ELSE <<MipImage(fmt, w, h, seed, level)>>
         \o MipImages(fmt, Max(1, w \div 2), Max(1, h \div 2), seed, level + 1, mips)

FlippableFormats ==
    BC1Formats \cup BC2Formats \cup BC3Formats \cup BC4Formats \cup BC5Formats

BC6HFormats == {BC6H_Typeless, BC6H_UF16, BC6H_SF16}

BC7Formats == {BC7_Typeless, BC7_UNorm, BC7_UNorm_SRGB}

FlipFormats ==
    FlippableFormats \cup BC6HFormats \cup BC7Formats \cup {R8G8B8A8_UNorm, B5G6R5_UNorm}

InitFlip ==
    /\ Constructed(ZeroHeader, FALSE)
    /\ NoHistory
    /\ \E fmt \in FlipFormats, w \in 0..MaxFlipWidth, h \in 1..MaxFlipHeight,
          mips \in 1..MaxFlipMips, seed \in 0..MaxSeed :
        /\ m_format = fmt
        /\ m_imageDatas = MipImages(fmt, w, h, seed, 0, mips)
        /\ origDatas = MipImages(fmt, w, h, seed, 0, mips)
    /\ flips = 0
    /\ flipRet = TRUE

\* Flip() is called and returns.
FlipCall ==
    /\ flips < MaxFlips
    /\ m_imageDatas' = Flip(m_imageDatas, m_format).images
    /\ flipRet' = Flip(m_imageDatas, m_format).ret
    /\ flips' = flips + 1
    /\ UNCHANGED <<ddsVars, histVars, m_format, origDatas>>

NextFlip == FlipCall

SpecFlip == InitFlip /\ [][NextFlip]_vars

\* C10: two calls of Flip on a BC1, BC2, BC3, BC4 or BC5 image (every format
\* variant, every width and height of the model, heights 1, 2, 3 and 8 among
\* them) leave every byte of the payload as it was, and both return true.
C10_FlipTwiceRestores ==
    (flips = 2 /\ m_format \in FlippableFormats) =>
        /\ flipRet
        /\ m_imageDatas = origDatas

C10_Witness ==
    /\ flips = 2
    /\ m_format = BC5_SNorm
    /\ Len(m_imageDatas) = 2
    /\ m_imageDatas[1].m_width = 5
    /\ m_imageDatas[1].m_height = 8
    /\ m_imageDatas = origDatas

(***************************************************************************)
(* Further properties of the loader.                                       *)
(***************************************************************************)
\* One load on a new object that verified the header (so it returned below
\* Error), followed by calls of populate_image_data only.
LoadedOnce ==
    /\ ~crashed
    /\ ops # <<>>
    /\ ops[1] = "load"
    /\ \A k \in 2..Len(ops) : ops[k] = "populate"
    /\ m_header_verified

\* The extended header of the buffer is a 2D texture with the TextureCube flag.
IsDX10Cube(buf) ==
    /\ NamesDX10(buf.hdr)
    /\ buf.hdr10.resource_dimension = Texture2D
    /\ (buf.hdr10.misc_flag \cap TextureCube) # {}

\* C11: after a load that returned below Error, and after every
\* populate_image_data that follows it, array_size() >= 1; right after the
\* load a raw extended-header array_size of 0 has become 1, a DX10 cube map
\* has 6 times the stored array_size and a legacy cube map has 6.
C11_ArraySizeAtLeastOne ==
    LoadedOnce =>
        /\ header_DXT10.array_size >= 1
        /\ (LastOp = "load" /\ NamesDX10(lastBuf.hdr) /\ lastBuf.hdr10.array_size = 0
               /\ ~IsDX10Cube(lastBuf)) => header_DXT10.array_size = 1
        /\ (LastOp = "load" /\ IsDX10Cube(lastBuf)) =>
               header_DXT10.array_size = 6 * Max(1, lastBuf.hdr10.array_size)
        /\ (LastOp = "load" /\ ~NamesDX10(lastBuf.hdr) /\ is_cubemap) =>
               header_DXT10.array_size = 6

\* The buffer passes the structural checks of load.
WellFormed(buf) == buf.magic = Magic /\ buf.size > SizeofMagic + SizeofHeader

\* C12: the first load of a file whose FourCC is "DXT1" leaves format
\* BC1_UNorm, compression BC1_DXT1, bpp 4 and num_channels 4, with the FourCC
\* flag set or clear and whatever bit_count and the masks hold.
C12_DXT1Deduction ==
    (/\ FreshLoad
     /\ WellFormed(lastBuf)
     /\ lastBuf.hdr.pixel_format.fourCC = FOURCC_DXT1) =>
        /\ header_DXT10.format = BC1_UNorm
        /\ compression = "BC1_DXT1"
        /\ bpp = 4
        /\ num_channels = 4

C12_Witness ==
    /\ FreshLoad
    /\ WellFormed(lastBuf)
    /\ lastBuf.hdr.pixel_format.fourCC = FOURCC_DXT1
    /\ (lastBuf.hdr.pixel_format.flags \cap FourCC) = {}
    /\ lastBuf.hdr.pixel_format.bit_count = 32
    /\ lastBuf.hdr.pixel_format.masks # NoMasks
    /\ header_DXT10.format = BC1_UNorm
    /\ bpp = 4
    /\ num_channels = 4

TruncationMessages == {"ImageDataSizeZero", "ImageDataPastEnd", "ImageDataImpossiblyLarge"}

\* No branch of the loops of populate_image_data cut the traversal short.
NotTruncated(res) == \A k \in 1..Len(res.message) : res.message[k] \notin TruncationMessages

\* C13: a populate_image_data that runs its loops (the header is verified)
\* and takes no truncation branch leaves array_size * mip_count entries, slice
\* by slice and level by level inside a slice: entry j * mip_count + i
\* measures max(1, W >> i) x max(1, H >> i) x max(1, D >> i).
C13_SliceMajorLevelMinor ==
    [][(/\ header_loaded
        /\ m_header_verified
        /\ PopulateStep
        /\ NotTruncated(lastRes')) =>
          /\ Len(image_data') = header'.mipmap_count * header_DXT10'.array_size
          /\ \A j \in 0..(header_DXT10'.array_size - 1), i \in 0..(header'.mipmap_count - 1) :
                 LET e == image_data'[j * header'.mipmap_count + i + 1]
                 IN  /\ e.width = LevelDim(header'.width, i)
                     /\ e.height = LevelDim(header'.height, i)
                     /\ e.depth = LevelDim(header'.depth, i)]_vars

C13_Witness ==
    /\ ops = <<"load", "populate">>
    /\ ~crashed
    /\ NotTruncated(lastRes)
    /\ header_DXT10.array_size = 2
    /\ header.mipmap_count = 3
    /\ Len(image_data) = 6
    /\ image_data[5].width = 2
    /\ image_data[5].height = 1

\* The populate that follows a fresh load sized its first level in the
\* known-format branch of image_data_size, as a format that is not block
\* compressed, with a bit_count that the cross-check reads and that disagrees
\* with the bytes per texel of the table.
Level0BitCountDisagrees ==
    /\ ops = <<"load", "populate">>
    /\ ~crashed
    /\ m_header_verified
    /\ ~bitmasked
    /\ header_DXT10.format # 0
    /\ ~is_compressed(header_DXT10.format)
    /\ header.width >= 1
    /\ header.height >= 1
    /\ BitCountMismatch(header.pixel_format.bit_count,
                        TableNumBytes(header_DXT10.format, bpp, header.width,
                                      header.height, header.depth),
                        header.width * header.height)

\* C14: in the known-format branch a non-zero bit_count that disagrees with
\* the bytes per texel of the format table leaves the level at the size of the
\* table and records a Warning.
C14_TableSizeWins ==
    Level0BitCountDisagrees =>
        /\ HasMessage(lastRes, "ImageDataSizeMismatch")
        /\ lastRes.type >= Warning
        /\ image_data # <<>> =>
               image_data[1].length =
                   TableNumBytes(header_DXT10.format, bpp, header.width,
                                 header.height, header.depth) * header.depth

\* The load just made took the last branch of calc_channel_info (no known
\* format, or bit masks, and bit_count 0) with a pitch_or_linear_size that is
\* no multiple of the width.
PitchNotMultipleOfWidth ==
    /\ FreshLoad
    /\ header_loaded
    /\ WellFormed(lastBuf)
    /\ bitmasked \/ header_DXT10.format = 0
    /\ header.pixel_format.bit_count = 0
    /\ header.width # 0
    /\ header.pitch_or_linear_size % header.width # 0

\* C15: when the bits per pixel are implied by the pitch and
\* pitch_or_linear_size is no multiple of the width, load records a Warning,
\* leaves bpp at 0 and returns Error, and the header is not marked verified.
C15_PitchMismatchIsError ==
    PitchNotMultipleOfWidth =>
        /\ HasMessage(lastRes, "PitchNotDivisibleByWidth")
        /\ bpp = 0
        /\ lastRes.type = Error
        /\ ~m_header_verified

(***************************************************************************)
(* Further properties of Flip.                                             *)
(***************************************************************************)
\* C16: Flip on a BC6H or BC7 format with at least one image returns false
\* and leaves every byte of every image as it was.
C16_FlipRefusesBC6HAndBC7 ==
    (/\ flips >= 1
     /\ m_format \in BC6HFormats \cup BC7Formats
     /\ Len(origDatas) >= 1) =>
        /\ flipRet = FALSE
        /\ m_imageDatas = origDatas

C16_Witness ==
    /\ flips = 1
    /\ m_format \in BC7Formats
    /\ Len(origDatas) = 2
    /\ origDatas[1].m_height = 8
    /\ Len(origDatas[1].m_mem) >= 32
    /\ flipRet = FALSE
    /\ m_imageDatas = origDatas

(***************************************************************************)
(* Further properties of the loader.                                       *)
(***************************************************************************)
StructuralErrors ==
    {"FileTooSmallForMagic", "MagicNumberNotFound", "FileTooSmallForHeader",
     "FileTooSmallForDXT10Header"}

\* The headers, the decoded fields and the image list of the object.
DecodedState ==
    <<image_data, header, has_DXT10_header, header_DXT10, is_cubemap, compression,
      bpp, num_channels, alpha_mode, color_transform, bitmasked, bitmask_has_alpha,
      bitmask_has_rgb, bitmask_was_bump_du_dv, bit_counts, right_shifts>>

\* This step is a load that returned one of the errors of the set.
LoadFailsWith(errors) ==
    /\ ops' = Append(ops, "load")
    /\ ~crashed'
    /\ lastRes'.type = Error
    /\ \E m \in errors : HasMessage(lastRes', m)

\* C17: a load that fails on the magic number, on the size of the header or
\* on the size of the extended header changes neither header nor
\* header_DXT10 nor any decoded field nor image_data, and keeps no buffer.
C17_StructuralErrorLeavesNoState ==
    [][LoadFailsWith(StructuralErrors) =>
          /\ DecodedState' = DecodedState
          /\ dds' = EmptyBuffer]_vars

\* The load just made read a file whose extended header names a palette
\* format.
PaletteLoad ==
    /\ FreshLoad
    /\ lastBuf.magic = Magic
    /\ lastBuf.size > SizeofMagic + SizeofHeader + SizeofHeaderDXT10
    /\ NamesDX10(lastBuf.hdr)
    /\ lastBuf.hdr10.format \in PaletteFormats

\* C18: the load of a file whose extended header names AI44, IA44, P8 or A8P8
\* returns Warning, and leaves format R8G8B8A8_UNorm, 32 bits per pixel, four
\* channels, and the channel layout of four 8-bit channels at shifts 0, 8, 16
\* and 24.
C18_PaletteAsRgba8 ==
    PaletteLoad =>
        /\ lastRes.type = Warning
        /\ header_DXT10.format = R8G8B8A8_UNorm
        /\ bpp = 32
        /\ num_channels = 4
        /\ right_shifts = <<0, 8, 16, 24>>
        /\ bit_counts = <<8, 8, 8, 8>>

C20_SizeIsMipsTimesSlices ==
    (~crashed /\ header_loaded /\ LastOp = "populate" /\ lastRes.type < Error) =>
        /\ Len(image_data) = header.mipmap_count * header_DXT10.array_size
        /\ \A mip \in 0..(header.mipmap_count - 1), arr \in 0..(header_DXT10.array_size - 1) :
               /\ get_image_data(Self, mip, arr) < Len(image_data)
               /\ image_data[get_image_data(Self, mip, arr) + 1].width =
                      LevelDim(header.width, mip)

(***************************************************************************)
(* Properties of repeated loads, of divisions and of format deduction.     *)
(***************************************************************************)
\* The members of a DDSFile right after construction (Constructed above),
\* with the two members that have no initializer at zero.
FreshInstance ==
    [dds |-> EmptyBuffer, image_data |-> <<>>, header |-> ZeroHeader,
     has_DXT10_header |-> FALSE, header_DXT10 |-> DefaultHeaderDXT10,
     is_cubemap |-> FALSE, compression |-> "None", bpp |-> 0, num_channels |-> 0,
     alpha_mode |-> ALPHA_MODE_UNKNOWN, color_transform |-> "eNone",
     bitmasked |-> FALSE, bitmask_has_alpha |-> FALSE, bitmask_has_rgb |-> FALSE,
     bitmask_was_bump_du_dv |-> FALSE, bit_counts |-> [i \in 1..4 |-> 0],
     right_shifts |-> [i \in 1..4 |-> 0], m_header_verified |-> FALSE]

\* The decoded fields the object holds after this step are those of f.
DecodesAs(f) ==
    /\ header_DXT10'.format = f.header_DXT10.format
    /\ header'.mipmap_count = f.header.mipmap_count
    /\ header_DXT10'.array_size = f.header_DXT10.array_size
    /\ has_DXT10_header' = f.has_DXT10_header
    /\ bpp' = f.bpp
    /\ compression' = f.compression

\* This step is the load of a valid buffer other than the one the object
\* loaded with success in its only call so far.
SecondLoad ==
    /\ ops = <<"load">>
    /\ ~crashed
    /\ lastRes.type < Error
    /\ m_header_verified
    /\ ops' = <<"load", "load">>
    /\ ~crashed'
    /\ lastBuf' # lastBuf
    /\ WellFormed(lastBuf')

\* C21: the load of a valid buffer B into an object that has loaded another
\* buffer with success leaves the decoded fields (format, mip_count,
\* array_size, has_DXT10_header, bpp, compression) that a new object derives
\* from B, mip_count inside 1..31.
C21_ReloadDecodesAsFresh ==
    [][(SecondLoad /\ load(FreshInstance, lastBuf').res.type < Error) =>
          /\ DecodesAs(load(FreshInstance, lastBuf').s)
          /\ header'.mipmap_count \in 1..31]_vars

\* C22: no load and no populate_image_data divides by zero, whatever the
\* width, height and depth of the header: every call returns its Result.
C22_NoDivisionByZero == ~crashed

\* The first load went through verify_header to its end.
VerifiedFreshLoad ==
    /\ FreshLoad
    /\ WellFormed(lastBuf)
    /\ m_header_verified

\* C23: after the load of a new object the Luminance flag of the pixel
\* format gives color_transform eLuminance, and without it the YUV flag gives
\* eYUV, whatever the FourCC dispatch, the swizzle code in bit_count and the
\* canonical format assigned.
C23_FlagBitsWin ==
    VerifiedFreshLoad =>
        /\ (lastBuf.hdr.pixel_format.flags \cap Luminance) # {} =>
               color_transform = "eLuminance"
        /\ ((lastBuf.hdr.pixel_format.flags \cap Luminance) = {}
                /\ (lastBuf.hdr.pixel_format.flags \cap YUV) # {}) =>
               color_transform = "eYUV"

\* C23, amended: the flag bits win over the FourCC dispatch and over the
\* swizzle code, Luminance over YUV; the canonical format is read last, and
\* a B5G5R5A1, B8G8R8A8 or B8G8R8X8 format that is not bit-masked gives
\* eSwapRB whatever the flags.
C23_FlagBitsWinUnlessSwapRB ==
    VerifiedFreshLoad =>
        IF ~bitmasked /\ header_DXT10.format \in SwapRBFormats
        THEN color_transform = "eSwapRB"
        ELSE /\ (lastBuf.hdr.pixel_format.flags \cap Luminance) # {} =>
                    color_transform = "eLuminance"
             /\ ((lastBuf.hdr.pixel_format.flags \cap Luminance) = {}
                     /\ (lastBuf.hdr.pixel_format.flags \cap YUV) # {}) =>
                    color_transform = "eYUV"

C23_Witness ==
    /\ VerifiedFreshLoad
    /\ lastBuf.hdr.pixel_format.flags = FourCC \cup Luminance \cup YUV
    /\ lastBuf.hdr.pixel_format.bit_count = FOURCC_A2XY
    /\ header_DXT10.format = R8G8B8A8_UNorm
    /\ color_transform = "eLuminance"

\* The decoded fields of the object are those of g.
SameDecoding(g) ==
    /\ header_DXT10.format = g.header_DXT10.format
    /\ compression = g.compression
    /\ color_transform = g.color_transform
    /\ bpp = g.bpp
    /\ num_channels = g.num_channels
    /\ has_DXT10_header = g.has_DXT10_header
    /\ PayloadOffset(has_DXT10_header) = PayloadOffset(g.has_DXT10_header)

\* The buffer with the FourCC flag of its pixel format set.
WithFourCCFlag(buf) == [buf EXCEPT !.hdr.pixel_format.flags = @ \cup FourCC]

\* The first load read a header with a FourCC and without the FourCC flag.
FlaglessFourCCLoad ==
    /\ FreshLoad
    /\ WellFormed(lastBuf)
    /\ lastBuf.hdr.pixel_format.fourCC # 0
    /\ (lastBuf.hdr.pixel_format.flags \cap FourCC) = {}

\* C24: the load of a header with a non-zero FourCC and the FourCC flag
\* clear records a Warning and leaves the format, compression, color
\* transform, bpp, channel count, extended-header presence and payload offset
\* that the same header with the flag set gives.
C24_FlaglessFourCCDecodesAlike ==
    FlaglessFourCCLoad =>
        /\ HasMessage(lastRes, "FourCCFlagNotSet")
        /\ lastRes.type >= Warning
        /\ SameDecoding(load(FreshInstance, WithFourCCFlag(lastBuf)).s)

\* The first load read a header without FourCC, hence without extended
\* header, and did not stop on a structural error.
MaskOnlyLoad ==
    /\ FreshLoad
    /\ WellFormed(lastBuf)
    /\ lastBuf.hdr.pixel_format.fourCC = 0
    /\ (lastBuf.hdr.pixel_format.flags \cap FourCC) = {}

\* C25: without extended header and without FourCC the format is looked up
\* in a table of flags, bit_count and masks: the RGB flag with bit_count 32
\* and masks 0x000000ff, 0x0000ff00, 0x00ff0000, 0xff000000 is
\* R8G8B8A8_UNorm.
C25_MaskTableLookup ==
    (/\ MaskOnlyLoad
     /\ (lastBuf.hdr.pixel_format.flags \cap RGB) # {}
     /\ lastBuf.hdr.pixel_format.bit_count = 32
     /\ lastBuf.hdr.pixel_format.masks = <<0..7, 8..15, 16..23, 24..31>>) =>
        header_DXT10.format = R8G8B8A8_UNorm

\* C25, amended: without extended header and without FourCC load looks the
\* format up in no table: the format is Format_Unknown and the object is
\* bit-masked for every combination of flags, bit_count and masks, bpp is the
\* bit_count when that is not 0, and the channels are read off the masks.
C25_MaskOnlyIsBitmasked ==
    MaskOnlyLoad =>
        /\ header_DXT10.format = Format_Unknown
        /\ bitmasked
        /\ has_DXT10_header = FALSE
        /\ lastBuf.hdr.pixel_format.bit_count # 0 => bpp = lastBuf.hdr.pixel_format.bit_count
        /\ \A i \in 1..4 :
               /\ bit_counts[i] = calc_shifts(lastBuf.hdr.pixel_format.masks[i]).count
               /\ right_shifts[i] = calc_shifts(lastBuf.hdr.pixel_format.masks[i]).right

C25_Witness ==
    /\ MaskOnlyLoad
    /\ lastBuf.hdr.pixel_format.flags = RGB
    /\ lastBuf.hdr.pixel_format.bit_count = 32
    /\ lastBuf.hdr.pixel_format.masks = <<0..7, 8..15, 16..23, 24..31>>
    /\ m_header_verified
    /\ header_DXT10.format = Format_Unknown
    /\ bitmasked
    /\ right_shifts = <<0, 8, 16, 24>>

\* C28: a populate_image_data that meets a level of more than 16 bytes per
\* texel records a Warning, emits neither that level nor a later one, and
\* leaves mip_count and array_size describing the entries it kept.
C28_ImplausibleLevelStops ==
    [][(/\ header_loaded
        /\ m_header_verified
        /\ PopulateStep
        /\ HasMessage(lastRes', "ImageDataImpossiblyLarge")) =>
          /\ lastRes'.type >= Warning
          /\ \A k \in 1..Len(image_data') :
                 ~ImpossiblyLarge(image_data'[k].length, image_data'[k].width,
                                  image_data'[k].height, image_data'[k].depth)
          /\ Len(image_data') = header'.mipmap_count * header_DXT10'.array_size]_vars

CoversBits(size, a, b, c, e) == (((8 * size) \div a) \div b) \div c >= e

\* The formats whose size image_data_size computes as (bpp * w * h + 7) / 8.
PlainFormat(fmt) ==
    /\ fmt # 0
    /\ fmt \notin BC8ByteFormats \cup BC16ByteFormats
    /\ AstcBlock(fmt) = <<0, 0>>
    /\ fmt \notin {R8G8_B8G8_UNorm, G8R8_G8B8_UNorm, YUY2, Y210, Y216, NV11, NV12,
                   YUV420_OPAQUE, P010, P016}

\* The size image_data_size returns for level 0 of the loaded header.
Level0Size == image_data_size(Self, header.width, header.height, header.depth, lastRes)

\* C29: the byte size image_data_size computes for a level is at least the
\* size in unbounded arithmetic, ceil(bpp * w * h / 8) * d for a plain format
\* and ceil(bit_count * w * h * d / 8) for a bit-masked header with a
\* bit_count; on the second path the only exception is a size of 0 reported
\* with the "too large" Warning.
C29_SizeNeverWrapsSmaller ==
    [][(/\ FreshLoad
        /\ m_header_verified
        /\ lastRes.type < Error
        /\ header.width > 0 /\ header.height > 0 /\ header.depth > 0
        /\ PopulateStep) =>
          /\ (~bitmasked /\ PlainFormat(header_DXT10.format)
                /\ header.pixel_format.bit_count = 0 /\ bpp > 0) =>
                 CoversBits(Level0Size.size \div header.depth, bpp,
                            header.width, header.height, 1)
          /\ ((bitmasked \/ header_DXT10.format = 0)
                /\ header.pixel_format.bit_count # 0) =>
                 \/ CoversBits(Level0Size.size, header.pixel_format.bit_count,
                               header.width, header.height, header.depth)
                 \/ /\ Level0Size.size = 0
                    /\ HasMessage(Level0Size.res, "FileSizeTooLarge")]_vars

(***************************************************************************)
(* The geometry of Flip.  A 3-bit channel is two endpoint bytes followed   *)
(* by six index bytes; these hold 48 bits, least significant first, three  *)
(* bits per texel, so that texel row k is the bits 12k .. 12k + 11.        *)
(***************************************************************************)
\* Texel row k of the six index bytes at offset t of mem.
IndexRow(mem, t, k) ==
    CASE k = 0 -> mem[t + 1] + (mem[t + 2] % 16) * 256
      [] k = 1 -> (mem[t + 2] \div 16) + mem[t + 3] * 16
      [] k = 2 -> mem[t + 4] + (mem[t + 5] % 16) * 256
      [] k = 3 -> (mem[t + 5] \div 16) + mem[t + 6] * 16

\* The offsets of the 3-bit channels inside a block of the format.
ChannelOffsets(fmt) == IF fmt \in BC5Formats THEN {0, 8} ELSE {0}

\* The channel at offset to of new holds the endpoints of the channel at
\* offset from of old and its four texel rows in reversed order.
ChannelMirrored(new, to, old, from) ==
    /\ new[to + 1] = old[from + 1]
    /\ new[to + 2] = old[from + 2]
    /\ \A k \in 0..3 : IndexRow(new, to + 2, k) = IndexRow(old, from + 2, 3 - k)

\* Every block of image new is the mirrored block of the opposite block row
\* of image old.
BlocksMirrored(new, old, fmt) ==
    LET numYBlocks == (old.m_height + 3) \div 4
        numXBlocks == (old.m_width + 3) \div 4
    IN  \A y \in 0..(numYBlocks - 1), x \in 0..(numXBlocks - 1), c \in ChannelOffsets(fmt) :
            ChannelMirrored(new.m_mem, y * old.m_memPitch + x * BlockBytes(fmt) + c,
                            old.m_mem,
                            (numYBlocks - 1 - y) * old.m_memPitch + x * BlockBytes(fmt) + c)

\* C26: after Flip on a BC3, BC4 or BC5 image more than 2 texels high, the
\* block at block row y and column x holds the endpoint bytes of the block
\* that was at block row numYBlocks - 1 - y of the same column, and each
\* 3-bit channel holds that block's four 12-bit texel rows in reversed order.
C26_BlockRowsMirrored ==
    (flips = 1 /\ m_format \in BC3Formats \cup BC4Formats \cup BC5Formats) =>
        /\ flipRet
        /\ \A n \in 1..Len(m_imageDatas) :
               m_imageDatas[n].m_height > 2 =>
                   BlocksMirrored(m_imageDatas[n], origDatas[n], m_format)

C26_Witness ==
    /\ flips = 1
    /\ m_format \in BC5Formats
    /\ m_imageDatas[1].m_height = 9
    /\ m_imageDatas[1].m_width = 5
    /\ flipRet
    /\ m_imageDatas # origDatas
    /\ BlocksMirrored(m_imageDatas[1], origDatas[1], m_format)

\* The index data of texel row r in block column x of an image: the 2-bit
\* color indices (one byte per row), the 4-bit alpha of BC2 (two bytes per
\* row) and the 3-bit indices of BC3, BC4 and BC5 (12 bits per row).
TexelRow(img, fmt, r, x) ==
    LET b == (r \div 4) * img.m_memPitch + x * BlockBytes(fmt)
        k == r % 4
    IN  CASE fmt \in BC1Formats -> <<img.m_mem[b + 4 + k + 1]>>
          [] fmt \in BC2Formats ->
                <<img.m_mem[b + 2 * k + 1], img.m_mem[b + 2 * k + 2], img.m_mem[b + 12 + k + 1]>>
          [] fmt \in BC3Formats -> <<IndexRow(img.m_mem, b + 2, k), img.m_mem[b + 12 + k + 1]>>
          [] fmt \in BC4Formats -> <<IndexRow(img.m_mem, b + 2, k)>>
          [] fmt \in BC5Formats ->
                <<IndexRow(img.m_mem, b + 2, k), IndexRow(img.m_mem, b + 10, k)>>

\* Texel row r of new is texel row m_height - 1 - r of old, in every column.
TexelRowsMirrored(new, old, fmt) ==
    \A r \in 0..(old.m_height - 1), x \in 0..((old.m_width + 3) \div 4 - 1) :
        TexelRow(new, fmt, r, x) = TexelRow(old, fmt, old.m_height - 1 - r, x)

\* C27: Flip mirrors a BC1, BC2, BC3, BC4 or BC5 image of any height texel
\* row by texel row: the index data of texel row r of the result is that of
\* texel row h - 1 - r of the original.
C27_TexelRowMirror ==
    (flips = 1 /\ m_format \in FlippableFormats) =>
        /\ flipRet
        /\ \A n \in 1..Len(m_imageDatas) :
               TexelRowsMirrored(m_imageDatas[n], origDatas[n], m_format)
====
